---- MODULE Spec2Model ----
(***************************************************************************)
(* Model of the request dispatch and streaming translation engine of the  *)
(* Vertex AI proxy (src/src/index.ts, startProxy routes).                  *)
(*                                                                         *)
(* One inbound POST request is followed from ingress to the end of its    *)
(* response.  Every await of a handler is a step of the model: the        *)
(* credential fetch, the upstream POST, each read of the upstream body.   *)
(* Exceptions travel in `thrown` from the throw to the catch that handles *)
(* them.  Text is modelled as a sequence of words; includes() and         *)
(* startsWith() are computed on the words.                                 *)
(***************************************************************************)
EXTENDS Integers, Sequences, FiniteSets, TLC

\* ------------------------------------------------------------------------
\* Bounds of the model
\* ------------------------------------------------------------------------
MaxEvents == 2

MaxLinesPerRead == 1

MaxNow == 1

MaxDispatch == 3

MaxExtractMessages == 3

MaxTruncateMessages == 6
\* longest message list given to the translators of the upstream body
MaxBodyMessages == 2
\* highest number of a log file created
MaxLogFiles == 5
\* chat requests sent to the server of createServer
MaxRequests == 3
\* latest Date.now() of the server of createServer
MaxClock == 2
\* content chunks of one stream of the server of createServer
MaxChunks == 1
\* callers of a RequestQueue on its own
MaxQueueCallers == 5
\* content blocks of one non-streaming upstream response
MaxResponseBlocks == 2

\* ------------------------------------------------------------------------
\* Text helpers
\* ------------------------------------------------------------------------

\* String.prototype.includes, on words
Includes(text, word) == \E i \in 1..Len(text) : text[i] = word

\* String.prototype.startsWith, on words
StartsWith(text, prefix) ==
    /\ Len(prefix) <= Len(text)
    /\ \A i \in 1..Len(prefix) : text[i] = prefix[i]

\* ------------------------------------------------------------------------
\* Model catalog (MODEL_CATALOG), in insertion order
\* ------------------------------------------------------------------------
Opus == <<"claude-", "opus-4-5", "@", "20251101">>

Sonnet == <<"claude-", "sonnet-4-5", "@", "20250929">>

Haiku == <<"claude-", "haiku-4-5", "@", "20251001">>

Gemini3Pro == <<"gemini-3-pro-preview">>

Gemini25Pro == <<"gemini-2.5-pro">>

Imagen4 == <<"imagen-4.0-generate-001">>

ClaudeRegions == <<"us-east5", "europe-west1", "asia-southeast1", "global">>

MODEL_CATALOG ==
    << [id |-> Opus,        provider |-> "anthropic", regions |-> ClaudeRegions,
        contextWindow |-> 200000, maxTokens |-> 64000],
       [id |-> Sonnet,      provider |-> "anthropic", regions |-> ClaudeRegions,
        contextWindow |-> 200000, maxTokens |-> 64000],
       [id |-> Haiku,       provider |-> "anthropic", regions |-> ClaudeRegions,
        contextWindow |-> 200000, maxTokens |-> 64000],
       [id |-> Gemini3Pro,  provider |-> "google",    regions |-> <<"global">>,
        contextWindow |-> 1048576, maxTokens |-> 65536],
       [id |-> Gemini25Pro, provider |-> "google",    regions |-> <<"us-central1", "europe-west4">>,
        contextWindow |-> 1000000, maxTokens |-> 64000],
       [id |-> Imagen4,     provider |-> "imagen",    regions |-> <<"us-central1">>,
        contextWindow |-> 0, maxTokens |-> 0] >>

NoSpec == [id |-> <<>>, provider |-> "none", regions |-> <<>>,
           contextWindow |-> 0, maxTokens |-> 0]

InCatalog(modelId) == \E i \in 1..Len(MODEL_CATALOG) : MODEL_CATALOG[i].id = modelId

\* getModelSpec: MODEL_CATALOG[modelId], NoSpec for undefined
getModelSpec(modelId) ==
    IF InCatalog(modelId)
    THEN MODEL_CATALOG[CHOOSE i \in 1..Len(MODEL_CATALOG) : MODEL_CATALOG[i].id = modelId]
    ELSE NoSpec

\* ------------------------------------------------------------------------
\* Configuration
\* ------------------------------------------------------------------------

\* model_aliases of loadConfig (a subset of the default table)
DefaultAliases == [a \in {<<"sonnet">>, <<"gpt-4">>} |->
                     IF a = <<"sonnet">> THEN Sonnet ELSE Opus]

\* fallback_chains tables a config file can hold
NoChains == [m \in {} |-> <<>>]

CyclicChain == [m \in {Opus, Sonnet} |-> IF m = Opus THEN <<Sonnet>> ELSE <<Opus>>]

NestedChain == [m \in {Opus, Sonnet} |-> IF m = Opus THEN <<Sonnet>> ELSE <<Haiku>>]

FallbackTables == {NoChains, CyclicChain, NestedChain}

\* contents of the region cache file: model id -> availableRegions
NoCache == [m \in {} |-> <<>>]

CacheTables == { NoCache, [m \in {Opus} |-> <<"europe-west1", "us-east5">>] }

\* model strings a client can send
ModelInputs == { <<"sonnet">>, Opus, <<"claude-", "haiku-4-5">>,
                 Gemini3Pro, Gemini25Pro, Imagen4 }

\* ------------------------------------------------------------------------
\* Upstream outcomes
\* ------------------------------------------------------------------------
NoStatus == 0

\* non-2xx answers of Vertex AI: status and body text
UpstreamErrors ==
    { [status |-> 400, message |-> <<"bad", "request">>],
      [status |-> 400, message |-> <<"service", "unavailable">>],
      [status |-> 429, message |-> <<"quota", "exceeded">>],
      [status |-> 503, message |-> <<"overloaded">>] }

\* what the POST to Vertex AI can do: reject (no HTTP status), answer a
\* non-2xx status with a body, answer 200 with a body stream, or answer 204,
\* whose Response.body is null
UpstreamOutcomes ==
    { [kind |-> "reject", status |-> NoStatus, body |-> <<"fetch", "failed">>, hasBody |-> FALSE] }
    \cup { [kind |-> "http", status |-> e.status, body |-> e.message, hasBody |-> TRUE] :
              e \in UpstreamErrors }
    \cup { [kind |-> "http", status |-> 200, body |-> <<>>, hasBody |-> TRUE],
           [kind |-> "http", status |-> 204, body |-> <<>>, hasBody |-> FALSE] }

\* Response.ok
ResponseOk(status) == status >= 200 /\ status <= 299

NoError == [status |-> NoStatus, message |-> <<>>]

AuthError == [status |-> NoStatus, message |-> <<"Could", "not", "load", "credentials">>]

ParseError == [status |-> NoStatus, message |-> <<"Unexpected", "token">>]

AllRegionsFailed == [status |-> NoStatus, message |-> <<"All", "regions", "failed">>]

HeadersSentError == [status |-> NoStatus, message |-> <<"Cannot", "set", "headers">>]

\* errors a read of the upstream body can reject with
ReadErrors == { [status |-> NoStatus, message |-> <<"terminated">>],
                [status |-> NoStatus, message |-> <<"upstream", "overloaded">>] }


\* ------------------------------------------------------------------------
\* Model resolution and region plan
\* ------------------------------------------------------------------------
RECURSIVE FirstWithPrefix(_, _)
\* the for loop of resolveModel: first catalog id, from position i on, that
\* starts with the input; <<>> when there is none
FirstWithPrefix(modelInput, i) ==
    IF i > Len(MODEL_CATALOG) THEN <<>>
    ELSE IF StartsWith(MODEL_CATALOG[i].id, modelInput) THEN MODEL_CATALOG[i].id
    ELSE FirstWithPrefix(modelInput, i + 1)

\* a resolver without the version-suffix search for Claude names
resolveModelNoPrefix(modelInput, cfg) ==
    IF modelInput \in DOMAIN cfg.model_aliases /\ cfg.model_aliases[modelInput] # <<>>
    THEN cfg.model_aliases[modelInput]
    ELSE modelInput

resolveModel(modelInput, cfg) ==
    IF modelInput \in DOMAIN cfg.model_aliases /\ cfg.model_aliases[modelInput] # <<>>
    THEN cfg.model_aliases[modelInput]
    ELSE IF InCatalog(modelInput) THEN modelInput
    ELSE IF /\ StartsWith(modelInput, <<"claude-">>)
            /\ ~Includes(modelInput, "@")
            /\ FirstWithPrefix(modelInput, 1) # <<>>
         THEN FirstWithPrefix(modelInput, 1)
         ELSE modelInput

priorityOrder == <<"us-east5", "us-central1", "europe-west1">>

RECURSIVE PushMissing(_, _, _)
\* for (const region of rs) if (!ordered.includes(region)) ordered.push(region)
PushMissing(ordered, rs, i) ==
    IF i > Len(rs) THEN ordered
    ELSE IF Includes(ordered, rs[i]) THEN PushMissing(ordered, rs, i + 1)
    ELSE PushMissing(Append(ordered, rs[i]), rs, i + 1)

\* a plan that keeps the regions as they are listed
OrderRegionsAsListed(rs) == rs

\* priority regions present in rs first, then the rest of rs in its order
OrderRegions(rs) ==
    PushMissing(SelectSeq(priorityOrder, LAMBDA r : Includes(rs, r)), rs, 1)

getRegionFallbackOrder(modelId, cacheModels) ==
    IF modelId \in DOMAIN cacheModels /\ Len(cacheModels[modelId]) > 0
    THEN OrderRegions(cacheModels[modelId])
    ELSE IF ~InCatalog(modelId) THEN priorityOrder
    ELSE OrderRegions(getModelSpec(modelId).regions)

\* ------------------------------------------------------------------------
\* Classification of a failed attempt
\* ------------------------------------------------------------------------
RetryStatuses == {429, 503, 500}

\* shouldRetry of handleAnthropicChatWithFallback
ShouldRetryChat(error) ==
    \/ error.status \in RetryStatuses
    \/ Includes(error.message, "capacity")
    \/ Includes(error.message, "overloaded")
    \/ Includes(error.message, "unavailable")

\* shouldRetry of handleAnthropicCompletions
ShouldRetryCompletions(error) ==
    \/ error.status \in RetryStatuses
    \/ Includes(error.message, "capacity")
    \/ Includes(error.message, "overloaded")

\* shouldRetry of handleAnthropicMessages (both places)
ShouldRetryMessages(error) ==
    \/ error.status \in RetryStatuses
    \/ Includes(error.message, "capacity")
    \/ Includes(error.message, "overloaded")

\* a loop that goes on to the next region whatever the error was
LoopVerdictAlwaysRetry(shouldRetry) == "retryable"

\* what a failover loop does with an attempt that threw: go on or rethrow
LoopVerdict(shouldRetry) == IF shouldRetry THEN "retryable" ELSE "terminal"

\* ------------------------------------------------------------------------
\* Frames of a stream
\* ------------------------------------------------------------------------
EventKinds == {"text_delta", "tool_use_start", "input_json_delta", "message_stop", "other"}

\* a chunk that takes a fresh id, chatcmpl-<Date.now()>, when it is built
ChunkIdFresh(completionId, t) == t

\* the id field of a chunk: every chunk is built with id: completionId
ChunkId(completionId, t) == completionId

Frame(kind, id, role, finish) == [kind |-> kind, id |-> id, role |-> role, finish |-> finish]

RoleFrame(cid, t) == Frame("role", ChunkId(cid, t), "assistant", "null")

ContentFrame(cid, t) == Frame("content", ChunkId(cid, t), "", "null")

ToolOpenFrame(cid, t) == Frame("tool_open", ChunkId(cid, t), "", "null")

ToolArgsFrame(cid, t) == Frame("tool_args", ChunkId(cid, t), "", "null")

StopFrame(cid, t) == Frame("finish", ChunkId(cid, t), "", "stop")

DoneFrame == Frame("done", -1, "", "")

\* a line of the Anthropic messages stream passed through unchanged
RawFrame == Frame("raw", -1, "", "")

\* the frame handleAnthropicChat writes for one data: line of the stream, as
\* a sequence of zero or one frames
ChatLineFrames(ev, cid, t) ==
    IF ev = "tool_use_start" THEN <<ToolOpenFrame(cid, t)>>
    ELSE IF ev = "input_json_delta" THEN <<ToolArgsFrame(cid, t)>>
    ELSE IF ev = "text_delta" THEN <<ContentFrame(cid, t)>>
    ELSE <<>>

RECURSIVE ChatFrames(_, _, _)
ChatFrames(lines, cid, t) ==
    IF lines = <<>> THEN <<>>
    ELSE ChatLineFrames(Head(lines), cid, t) \o ChatFrames(Tail(lines), cid, t)

\* the leftover buffer after the upstream ended: only a complete text_delta
\* record produces a frame
ChatTailFrames(buf, cid, t) ==
    IF buf.complete /\ buf.ev = "text_delta" THEN <<ContentFrame(cid, t)>> ELSE <<>>

\* the frame handleAnthropicCompletions writes for one data: line
CompletionsLineFrames(ev, cid, t) ==
    IF ev = "text_delta" THEN <<ContentFrame(cid, t)>> ELSE <<>>

RECURSIVE CompletionsFrames(_, _, _)
CompletionsFrames(lines, cid, t) ==
    IF lines = <<>> THEN <<>>
    ELSE CompletionsLineFrames(Head(lines), cid, t) \o CompletionsFrames(Tail(lines), cid, t)

\* the upstream body as the reader delivers it: the complete lines the
\* split produces and the unterminated rest that stays in the buffer
NoBuf == [ev |-> "none", complete |-> FALSE]

Buffers == {NoBuf} \cup [ev : EventKinds, complete : BOOLEAN]

LinesUpTo(n) == UNION { [1..k -> EventKinds] : k \in 0..n }

ReadValues == [lines : LinesUpTo(MaxLinesPerRead), tail : Buffers]

\* buffer += chunk; lines = buffer.split('\n'); buffer = lines.pop():
\* a record waiting in the buffer comes out as the first line, or stays
ReadFits(buf, v) ==
    IF buf = NoBuf THEN TRUE
    ELSE IF v.lines = <<>>
         THEN v.tail # NoBuf /\ v.tail.ev = buf.ev /\ (buf.complete => v.tail.complete)
         ELSE v.lines[1] = buf.ev

\* number of upstream records a read starts
NewEvents(buf, v) ==
    Len(v.lines) + (IF v.tail # NoBuf THEN 1 ELSE 0) - (IF buf # NoBuf THEN 1 ELSE 0)


\* ------------------------------------------------------------------------
\* State
\* ------------------------------------------------------------------------
VARIABLES
    config,         \* Config: model_aliases, fallback_chains
    cache,          \* region cache file: model id -> availableRegions
    req,            \* the inbound request: route, body.model, body.stream
    pc,             \* position of the request's handler
    modelId,        \* resolved model of the current dispatch
    loop,           \* failover loop: regions, index, lastError, attempts, POSTs sent
    thrown,         \* the exception on its way to a catch
    lastAttempt,    \* the latest failed attempt and how its loop classified it
    dispatches,     \* invocations of handleChatCompletions for this request
    requestCount,   \* proxyStats.requestCount
    res,            \* the Express response: headersSent, ended, closed by the client,
                    \* frames written, json calls
    streamState,    \* reader, buffer, completionId, receivedMessageStop of a stream
                    \* and the data: records handleAnthropicChat parsed
    errorLog,       \* kinds of log lines written for this request
    now,            \* Date.now()
    call,           \* a helper function under application: its name and arguments
    result,         \* what the helper returned
    logFiles,       \* the log file, its backup <path>.1 and the last line appended
    queue,          \* RequestQueue: maxConcurrent, maxQueueSize, activeCount, queue
    pool,           \* ClientPool: regions in insertion order, regionHealth
    tasks           \* the chat requests of createServer: handler position, response,
                    \* selected region, attempt, timeout timer

vars == <<config, cache, req, pc, modelId, loop, thrown, lastAttempt,
          dispatches, requestCount, res, streamState, errorLog, now, call, result,
          logFiles, queue, pool, tasks>>

\* the state of createServer and of the log files
createServerVars == <<queue, pool, tasks>>

Routes == {"chat", "completions", "messages"}

NoReq == [route |-> "none", model |-> <<>>, stream |-> FALSE]

NoLoop == [name |-> "none", regions |-> <<>>, ri |-> 0, lastError |-> NoError,
           attempts |-> <<>>, calls |-> 0]

NoAttempt == [loop |-> "none", status |-> NoStatus, message |-> <<>>, class |-> "none"]

NoStream == [handler |-> "none", reader |-> FALSE, buffer |-> NoBuf, completionId |-> -1,
             receivedMessageStop |-> FALSE, evCount |-> 0, events |-> <<>>]

NewRes == [headersSent |-> FALSE, ended |-> FALSE, closed |-> FALSE, wire |-> <<>>,
           jsonCalls |-> <<>>]

NoCall == [fn |-> "none"]

NotApplied == [applied |-> FALSE]

\* a path of the data directory with no file
NoFile == [exists |-> FALSE, size |-> 0, id |-> -1]

\* before the first log() call of a fresh data directory
NoLogFiles == [live |-> NoFile, backup |-> NoFile, nextId |-> 0, line |-> 0]

\* a process that did not call createServer
NoQueue == [maxConcurrent |-> 0, maxQueueSize |-> 0, activeCount |-> 0, queue |-> <<>>]

NoPool == [regions |-> <<>>, regionHealth |-> <<>>]

NoTasks == <<>>

Init ==
    /\ config \in [model_aliases : {DefaultAliases}, fallback_chains : FallbackTables]
    /\ cache \in CacheTables
    /\ req = NoReq
    /\ pc = "idle"
    /\ modelId = <<>>
    /\ loop = NoLoop
    /\ thrown = NoError
    /\ lastAttempt = NoAttempt
    /\ dispatches = 0
    /\ requestCount = 0
    /\ res = NewRes
    /\ streamState = NoStream
    /\ errorLog = {}
    /\ now = 0
    /\ call = NoCall
    /\ result = NotApplied
    /\ logFiles = NoLogFiles
    /\ queue = NoQueue
    /\ pool = NoPool
    /\ tasks = NoTasks

\* ------------------------------------------------------------------------
\* The Express response
\* ------------------------------------------------------------------------

\* res.write(frame) for each frame: the first write sends the headers;
\* nothing reaches the wire once the response has ended
ResWrite(r, frames) ==
    IF r.ended \/ frames = <<>> THEN r
    ELSE [r EXCEPT !.wire = r.wire \o frames, !.headersSent = TRUE]

\* res.end()
ResEnd(r) == [r EXCEPT !.ended = TRUE, !.headersSent = TRUE]

\* res.status(status).json(body): the call is recorded with the headersSent
\* it found; Express sends the body only when the headers are still unsent
\* (setHeader throws ERR_HTTP_HEADERS_SENT otherwise)
ResJson(r, status, kind, message, code) ==
    LET sent == [status |-> status, kind |-> kind, message |-> message, code |-> code,
                 headersSent |-> r.headersSent]
    IN  IF r.headersSent
        THEN [r EXCEPT !.jsonCalls = Append(r.jsonCalls, sent)]
        ELSE [r EXCEPT !.jsonCalls = Append(r.jsonCalls, sent),
                       !.headersSent = TRUE, !.ended = TRUE]

\* error.status || 500
StatusOr500(error) == IF error.status = NoStatus THEN 500 ELSE error.status

\* ------------------------------------------------------------------------
\* Failover loop bookkeeping
\* ------------------------------------------------------------------------
StartLoop(name, regions) ==
    [name |-> name, regions |-> regions, ri |-> 1, lastError |-> NoError,
     attempts |-> <<>>, calls |-> 0]

Attempted(l, class) ==
    [l EXCEPT !.attempts = Append(l.attempts, [region |-> l.regions[l.ri], class |-> class])]

\* one POST sent to Vertex AI
Called(l) == [l EXCEPT !.calls = l.calls + 1]

\* for (const region of regions): the next iteration
NextRegion(l) == [l EXCEPT !.ri = l.ri + 1]

\* a stream allocated by a handler: completionId = chatcmpl-<Date.now()>
OpenStream(handler, hasReader, t) ==
    [handler |-> handler, reader |-> hasReader, buffer |-> NoBuf, completionId |-> t,
     receivedMessageStop |-> FALSE, evCount |-> 0, events |-> <<>>]

\* ------------------------------------------------------------------------
\* Ingress
\* ------------------------------------------------------------------------
Ingress ==
    /\ pc = "idle"
    /\ \E route \in Routes, m \in ModelInputs, s \in BOOLEAN :
          /\ req' = [route |-> route, model |-> m, stream |-> s]
          /\ pc' = IF route = "chat" THEN "chat_entry"
                   ELSE IF route = "completions" THEN "completions_entry"
                   ELSE "messages_entry"
    /\ UNCHANGED <<logFiles, createServerVars, call, result, config, cache, modelId, loop, thrown, lastAttempt,
                   dispatches, requestCount, res, streamState, errorLog, now>>

\* handler positions inside a stream
StreamPcs == {"ac_read", "co_read", "ms_read",
              "gemini_call", "gemini_iter", "genai_call", "genai_iter"}

\* Date.now() advances between the chunks of a stream
Tick ==
    /\ pc \in StreamPcs
    /\ now < MaxNow
    /\ now' = now + 1
    /\ UNCHANGED <<logFiles, createServerVars, call, result, config, cache, req, pc, modelId, loop, thrown, lastAttempt,
                   dispatches, requestCount, res, streamState, errorLog>>

\* the client drops the connection while a chat handler streams: the 'close'
\* listener handleChatCompletions registered writes its log line, and
\* nothing else
ClientClose ==
    /\ req.route = "chat"
    /\ pc \in StreamPcs
    /\ ~res.closed
    /\ ~res.ended
    /\ res' = [res EXCEPT !.closed = TRUE]
    /\ errorLog' = errorLog \cup {"response_closed"}
    /\ UNCHANGED <<logFiles, createServerVars, call, result, config, cache, req, pc, modelId, loop, thrown, lastAttempt,
                   dispatches, requestCount, streamState, now>>

\* ------------------------------------------------------------------------
\* POST /v1/chat/completions
\* ------------------------------------------------------------------------

\* handleChatCompletions up to the dispatch on the provider
ChatEntry ==
    /\ pc = "chat_entry"
    /\ LET mid == resolveModel(req.model, config)
           spec == getModelSpec(mid)
           provider == IF spec = NoSpec THEN "anthropic" ELSE spec.provider
           regions == getRegionFallbackOrder(mid, cache)
       IN  /\ modelId' = mid
           /\ lastAttempt' = NoAttempt
           /\ requestCount' = requestCount + 1
           /\ dispatches' = dispatches + 1
           /\ IF provider = "anthropic"
              THEN /\ loop' = StartLoop("chat", regions)
                   /\ IF regions = <<>>
                      THEN thrown' = AllRegionsFailed /\ pc' = "chat_catch"
                      ELSE thrown' = NoError /\ pc' = "ac_token"
                   /\ res' = res
              ELSE IF provider = "google"
              THEN /\ pc' = IF spec.regions[1] = "global" THEN "genai_start" ELSE "gemini_start"
                   /\ UNCHANGED <<loop, thrown, res>>
              ELSE /\ res' = ResJson(res, 400, "error", <<"Unsupported", "provider">>, 400)
                   /\ pc' = "done"
                   /\ UNCHANGED <<loop, thrown>>
    /\ UNCHANGED <<logFiles, createServerVars, call, result, config, cache, req, streamState, errorLog, now>>

\* handleAnthropicChat: the access token (auth.getClient, getAccessToken)
AnthropicChatToken ==
    /\ pc = "ac_token"
    /\ \E ok \in BOOLEAN :
          IF ok THEN pc' = "ac_fetch" /\ thrown' = thrown
          ELSE pc' = "fb_catch" /\ thrown' = AuthError
    /\ UNCHANGED <<logFiles, createServerVars, call, result, config, cache, req, modelId, loop, lastAttempt,
                   dispatches, requestCount, res, streamState, errorLog, now>>

\* a handler that ends the stream with [DONE] alone, without the stop chunk
AnthropicChatFinishNoStop(r, st, l) ==
    /\ res' = ResEnd(ResWrite(r, ChatTailFrames(st.buffer, st.completionId, now)
                                   \o <<DoneFrame>>))
    /\ streamState' = [st EXCEPT
           !.receivedMessageStop =
               st.receivedMessageStop
               \/ (st.buffer.complete /\ st.buffer.ev = "message_stop"),
           !.events = IF st.buffer.complete THEN Append(@, st.buffer.ev) ELSE @]
    /\ loop' = Attempted(l, "success")
    /\ pc' = "done"

\* handleAnthropicChat after the upstream ended: the leftover buffer, the
\* final stop chunk, [DONE], res.end(); the loop then returns
AnthropicChatFinish(r, st, l) ==
    /\ res' = ResEnd(ResWrite(r, ChatTailFrames(st.buffer, st.completionId, now)
                                   \o <<StopFrame(st.completionId, now), DoneFrame>>))
    /\ streamState' = [st EXCEPT
           !.receivedMessageStop =
               st.receivedMessageStop
               \/ (st.buffer.complete /\ st.buffer.ev = "message_stop"),
           !.events = IF st.buffer.complete THEN Append(@, st.buffer.ev) ELSE @]
    /\ loop' = Attempted(l, "success")
    /\ pc' = "done"

\* handleAnthropicChat: the POST and what follows up to the next await
AnthropicChatFetch ==
    /\ pc = "ac_fetch"
    /\ \E o \in UpstreamOutcomes :
          IF o.kind = "reject"
          THEN /\ thrown' = [status |-> NoStatus, message |-> o.body]
               /\ pc' = "fb_catch"
               /\ loop' = Called(loop)
               /\ UNCHANGED <<res, streamState, errorLog>>
          ELSE IF ~ResponseOk(o.status)
          THEN /\ thrown' = [status |-> o.status, message |-> o.body]
               /\ pc' = "fb_catch"
               /\ errorLog' = IF req.stream THEN errorLog \cup {"upstream_error"} ELSE errorLog
               /\ loop' = Called(loop)
               /\ UNCHANGED <<res, streamState>>
          ELSE IF ~req.stream
          THEN /\ pc' = "ac_json"
               /\ loop' = Called(loop)
               /\ UNCHANGED <<thrown, res, streamState, errorLog>>
          ELSE LET st == OpenStream("anthropic", o.hasBody, now)
               IN  /\ UNCHANGED <<thrown, errorLog>>
                   /\ IF st.reader
                      THEN /\ res' = ResWrite(res, <<RoleFrame(st.completionId, now)>>)
                           /\ streamState' = st
                           /\ pc' = "ac_read"
                           /\ loop' = Called(loop)
                      ELSE AnthropicChatFinish(res, st, Called(loop))
    /\ UNCHANGED <<logFiles, createServerVars, call, result, config, cache, req, modelId, lastAttempt, dispatches, requestCount, now>>

\* handleAnthropicChat, non-streaming: response.json() and res.json(...)
AnthropicChatJson ==
    /\ pc = "ac_json"
    /\ \E ok \in BOOLEAN :
          IF ok
          THEN /\ res' = ResJson(res, 200, "completion", <<>>, 200)
               /\ loop' = Attempted(loop, "success")
               /\ pc' = "done"
               /\ thrown' = thrown
          ELSE /\ thrown' = ParseError
               /\ pc' = "fb_catch"
               /\ UNCHANGED <<res, loop>>
    /\ UNCHANGED <<logFiles, createServerVars, call, result, config, cache, req, modelId, lastAttempt,
                   dispatches, requestCount, streamState, errorLog, now>>

\* handleAnthropicChat: one reader.read() of the stream loop
AnthropicChatRead ==
    /\ pc = "ac_read"
    /\ \/ \* done: leave the loop
          /\ AnthropicChatFinish(res, streamState, loop)
          /\ UNCHANGED <<thrown, errorLog>>
       \/ \* the read rejects: catch (streamError)
          \E e \in ReadErrors :
             /\ errorLog' = errorLog \cup {"stream_error"}
             /\ IF ~res.headersSent
                THEN /\ thrown' = e
                     /\ pc' = "fb_catch"
                     /\ streamState' = NoStream
                     /\ UNCHANGED <<res, loop>>
                ELSE /\ res' = ResEnd(res)
                     /\ loop' = Attempted(loop, "success")
                     /\ pc' = "done"
                     /\ UNCHANGED <<thrown, streamState>>
       \/ \* a chunk of the body
          \E v \in ReadValues :
             /\ ReadFits(streamState.buffer, v)
             /\ streamState.evCount + NewEvents(streamState.buffer, v) <= MaxEvents
             /\ res' = ResWrite(res, ChatFrames(v.lines, streamState.completionId, now))
             /\ streamState' = [streamState EXCEPT
                    !.buffer = v.tail,
                    !.events = @ \o v.lines,
                    !.evCount = @ + NewEvents(streamState.buffer, v),
                    !.receivedMessageStop = @ \/ Includes(v.lines, "message_stop")]
             /\ UNCHANGED <<pc, thrown, loop, errorLog>>
    /\ UNCHANGED <<logFiles, createServerVars, call, result, config, cache, req, modelId, lastAttempt,
                   dispatches, requestCount, now>>

\* handleAnthropicChatWithFallback: catch (error) of one region
FallbackCatch ==
    /\ pc = "fb_catch"
    /\ LET retry == ShouldRetryChat(thrown)
           class == IF retry THEN "retryable" ELSE "terminal"
           l == [Attempted(loop, class) EXCEPT !.lastError = thrown]
       IN  /\ lastAttempt' = [loop |-> "chat", status |-> thrown.status,
                              message |-> thrown.message, class |-> class]
           /\ IF LoopVerdict(retry) = "retryable" /\ l.ri < Len(l.regions)
              THEN /\ loop' = NextRegion(l)
                   /\ thrown' = NoError
                   /\ pc' = "ac_token"
              ELSE \* throw error, or throw lastError after the last region
                   /\ loop' = l
                   /\ thrown' = thrown
                   /\ pc' = "chat_catch"
    /\ UNCHANGED <<logFiles, createServerVars, call, result, config, cache, req, modelId, dispatches, requestCount,
                   res, streamState, errorLog, now>>

\* handleChatCompletions: catch (error)
ChatCatch ==
    /\ pc = "chat_catch"
    /\ errorLog' = errorLog \cup {"handler_error"}
    /\ LET fallbacks == IF modelId \in DOMAIN config.fallback_chains
                        THEN config.fallback_chains[modelId] ELSE <<>>
       IN  IF res.headersSent
           THEN /\ res' = IF ~res.ended THEN ResEnd(res) ELSE res
                /\ pc' = "done"
                /\ UNCHANGED <<req, thrown>>
           ELSE IF Len(fallbacks) > 0
           THEN /\ dispatches < MaxDispatch
                /\ req' = [req EXCEPT !.model = fallbacks[1]]
                /\ pc' = "chat_entry"
                /\ thrown' = NoError
                /\ res' = res
           ELSE /\ res' = ResJson(res, 500, "error", thrown.message, StatusOr500(thrown))
                /\ pc' = "done"
                /\ UNCHANGED <<req, thrown>>
    /\ UNCHANGED <<logFiles, createServerVars, call, result, config, cache, modelId, loop, lastAttempt, dispatches,
                   requestCount, streamState, now>>

\* ------------------------------------------------------------------------
\* Gemini handlers of the chat route
\* ------------------------------------------------------------------------

\* errors the Google SDK calls can throw
GoogleErrors == UpstreamErrors \cup {[status |-> NoStatus, message |-> <<"fetch", "failed">>]}

\* handleGeminiChat up to the first await: the role chunk of a stream
GeminiChatStart ==
    /\ pc = "gemini_start"
    /\ IF req.stream
       THEN /\ streamState' = OpenStream("gemini", TRUE, now)
            /\ res' = ResWrite(res, <<RoleFrame(now, now)>>)
       ELSE UNCHANGED <<streamState, res>>
    /\ pc' = "gemini_call"
    /\ UNCHANGED <<logFiles, createServerVars, call, result, config, cache, req, modelId, loop, thrown, lastAttempt, dispatches,
                   requestCount, errorLog, now>>

\* handleGeminiChat: generateContentStream / generateContent
GeminiChatCall ==
    /\ pc = "gemini_call"
    /\ loop' = Called(loop)
    /\ \/ \* the call succeeds
          /\ IF req.stream
             THEN pc' = "gemini_iter" /\ res' = res
             ELSE pc' = "done" /\ res' = ResJson(res, 200, "completion", <<>>, 200)
          /\ UNCHANGED <<thrown, errorLog>>
       \/ \* the call throws
          \E e \in GoogleErrors :
             IF req.stream
             THEN /\ errorLog' = errorLog \cup {"stream_error"}
                  /\ IF ~res.headersSent
                     THEN thrown' = e /\ pc' = "chat_catch" /\ res' = res
                     ELSE thrown' = thrown /\ pc' = "done" /\ res' = ResEnd(res)
             ELSE /\ thrown' = e
                  /\ pc' = "chat_catch"
                  /\ UNCHANGED <<res, errorLog>>
    /\ UNCHANGED <<logFiles, createServerVars, call, result, config, cache, req, modelId, lastAttempt, dispatches,
                   requestCount, streamState, now>>

\* handleGeminiChat: one step of for await (const chunk of result.stream)
GeminiChatIter ==
    /\ pc = "gemini_iter"
    /\ \/ \* a chunk, with or without text
          \E hasText \in BOOLEAN :
             /\ streamState.evCount < MaxEvents
             /\ streamState' = [streamState EXCEPT !.evCount = @ + 1]
             /\ res' = IF hasText
                       THEN ResWrite(res, <<ContentFrame(streamState.completionId, now)>>)
                       ELSE res
             /\ UNCHANGED <<pc, errorLog>>
       \/ \* the stream ends: final chunk, [DONE], res.end()
          /\ res' = ResEnd(ResWrite(res, <<StopFrame(streamState.completionId, now), DoneFrame>>))
          /\ pc' = "done"
          /\ UNCHANGED <<streamState, errorLog>>
       \/ \* the stream throws: catch (streamError)
          /\ errorLog' = errorLog \cup {"stream_error"}
          /\ res' = ResEnd(res)
          /\ pc' = "done"
          /\ UNCHANGED streamState
    /\ UNCHANGED <<logFiles, createServerVars, call, result, config, cache, req, modelId, loop, thrown, lastAttempt, dispatches,
                   requestCount, now>>

\* handleGenAIChat: the awaits before the stream (import, resolveParts),
\* then the role chunk of a stream
GenAIChatStart ==
    /\ pc = "genai_start"
    /\ IF req.stream
       THEN /\ streamState' = OpenStream("genai", TRUE, now)
            /\ res' = ResWrite(res, <<RoleFrame(now, now)>>)
       ELSE UNCHANGED <<streamState, res>>
    /\ pc' = "genai_call"
    /\ UNCHANGED <<logFiles, createServerVars, call, result, config, cache, req, modelId, loop, thrown, lastAttempt, dispatches,
                   requestCount, errorLog, now>>

\* handleGenAIChat: ai.models.generateContentStream / generateContent
GenAIChatCall ==
    /\ pc = "genai_call"
    /\ loop' = Called(loop)
    /\ \/ \* the call succeeds
          /\ IF req.stream
             THEN pc' = "genai_iter" /\ res' = res
             ELSE pc' = "done" /\ res' = ResJson(res, 200, "completion", <<>>, 200)
          /\ UNCHANGED <<thrown, errorLog>>
       \/ \* the call throws
          \E e \in GoogleErrors :
             IF req.stream
             THEN /\ errorLog' = errorLog \cup {"stream_error"}
                  /\ IF ~res.headersSent
                     THEN thrown' = e /\ pc' = "chat_catch" /\ res' = res
                     ELSE thrown' = thrown /\ pc' = "done" /\ res' = ResEnd(res)
             ELSE /\ thrown' = e
                  /\ pc' = "chat_catch"
                  /\ UNCHANGED <<res, errorLog>>
    /\ UNCHANGED <<logFiles, createServerVars, call, result, config, cache, req, modelId, lastAttempt, dispatches,
                   requestCount, streamState, now>>

\* handleGenAIChat: one step of for await (const chunk of response)
GenAIChatIter ==
    /\ pc = "genai_iter"
    /\ \/ \* a chunk, with or without text
          \E hasText \in BOOLEAN :
             /\ streamState.evCount < MaxEvents
             /\ streamState' = [streamState EXCEPT !.evCount = @ + 1]
             /\ res' = IF hasText
                       THEN ResWrite(res, <<ContentFrame(streamState.completionId, now)>>)
                       ELSE res
             /\ UNCHANGED <<pc, errorLog>>
       \/ \* the stream ends: final chunk, [DONE], res.end()
          /\ res' = ResEnd(ResWrite(res, <<StopFrame(streamState.completionId, now), DoneFrame>>))
          /\ pc' = "done"
          /\ UNCHANGED <<streamState, errorLog>>
       \/ \* the stream throws: catch (streamError)
          /\ errorLog' = errorLog \cup {"stream_error"}
          /\ res' = ResEnd(res)
          /\ pc' = "done"
          /\ UNCHANGED streamState
    /\ UNCHANGED <<logFiles, createServerVars, call, result, config, cache, req, modelId, loop, thrown, lastAttempt, dispatches,
                   requestCount, now>>

\* ------------------------------------------------------------------------
\* POST /v1/completions
\* ------------------------------------------------------------------------

\* handleCompletions up to the call of handleAnthropicCompletions
CompletionsEntry ==
    /\ pc = "completions_entry"
    /\ LET mid == resolveModel(req.model, config)
           spec == getModelSpec(mid)
           provider == IF spec = NoSpec THEN "anthropic" ELSE spec.provider
           regions == getRegionFallbackOrder(mid, cache)
       IN  /\ modelId' = mid
           /\ lastAttempt' = NoAttempt
           /\ requestCount' = requestCount + 1
           /\ IF provider = "anthropic"
              THEN /\ loop' = StartLoop("completions", regions)
                   /\ IF regions = <<>>
                      THEN thrown' = AllRegionsFailed /\ pc' = "completions_catch"
                      ELSE thrown' = NoError /\ pc' = "co_token"
                   /\ res' = res
              ELSE /\ res' = ResJson(res, 400, "error", <<"Unsupported", "provider">>, 400)
                   /\ pc' = "done"
                   /\ UNCHANGED <<loop, thrown>>
    /\ UNCHANGED <<logFiles, createServerVars, call, result, config, cache, req, dispatches, streamState, errorLog, now>>

\* handleAnthropicCompletions: the access token
CompletionsToken ==
    /\ pc = "co_token"
    /\ \E ok \in BOOLEAN :
          IF ok THEN pc' = "co_fetch" /\ thrown' = thrown
          ELSE pc' = "co_catch" /\ thrown' = AuthError
    /\ UNCHANGED <<logFiles, createServerVars, call, result, config, cache, req, modelId, loop, lastAttempt,
                   dispatches, requestCount, res, streamState, errorLog, now>>

\* handleAnthropicCompletions after the upstream ended: final chunk, [DONE],
\* res.end(), return
CompletionsFinish(r, st, l) ==
    /\ res' = ResEnd(ResWrite(r, <<StopFrame(st.completionId, now), DoneFrame>>))
    /\ streamState' = st
    /\ loop' = Attempted(l, "success")
    /\ pc' = "done"

\* handleAnthropicCompletions: the POST and what follows up to the next await
CompletionsFetch ==
    /\ pc = "co_fetch"
    /\ \E o \in UpstreamOutcomes :
          IF o.kind = "reject"
          THEN /\ thrown' = [status |-> NoStatus, message |-> o.body]
               /\ pc' = "co_catch"
               /\ loop' = Called(loop)
               /\ UNCHANGED <<res, streamState, errorLog>>
          ELSE IF ~ResponseOk(o.status)
          THEN /\ thrown' = [status |-> o.status, message |-> o.body]
               /\ pc' = "co_catch"
               /\ errorLog' = IF req.stream THEN errorLog \cup {"upstream_error"} ELSE errorLog
               /\ loop' = Called(loop)
               /\ UNCHANGED <<res, streamState>>
          ELSE IF ~req.stream
          THEN /\ pc' = "co_json"
               /\ loop' = Called(loop)
               /\ UNCHANGED <<thrown, res, streamState, errorLog>>
          ELSE LET st == OpenStream("completions", o.hasBody, now)
               IN  /\ UNCHANGED <<thrown, errorLog>>
                   /\ IF st.reader
                      THEN /\ streamState' = st
                           /\ pc' = "co_read"
                           /\ loop' = Called(loop)
                           /\ res' = res
                      ELSE CompletionsFinish(res, st, Called(loop))
    /\ UNCHANGED <<logFiles, createServerVars, call, result, config, cache, req, modelId, lastAttempt, dispatches, requestCount, now>>

\* handleAnthropicCompletions, non-streaming: response.json() and res.json(...)
CompletionsJson ==
    /\ pc = "co_json"
    /\ \E ok \in BOOLEAN :
          IF ok
          THEN /\ res' = ResJson(res, 200, "completion", <<>>, 200)
               /\ loop' = Attempted(loop, "success")
               /\ pc' = "done"
               /\ thrown' = thrown
          ELSE /\ thrown' = ParseError
               /\ pc' = "co_catch"
               /\ UNCHANGED <<res, loop>>
    /\ UNCHANGED <<logFiles, createServerVars, call, result, config, cache, req, modelId, lastAttempt,
                   dispatches, requestCount, streamState, errorLog, now>>

\* handleAnthropicCompletions: one reader.read() of the stream loop
CompletionsRead ==
    /\ pc = "co_read"
    /\ \/ \* done: leave the loop
          /\ CompletionsFinish(res, streamState, loop)
          /\ UNCHANGED <<thrown, errorLog>>
       \/ \* the read rejects: catch (streamError)
          \E e \in ReadErrors :
             /\ errorLog' = errorLog \cup {"stream_error"}
             /\ IF ~res.headersSent
                THEN \* rethrown: the reader and the buffer of this attempt are dropped
                     /\ thrown' = e
                     /\ pc' = "co_catch"
                     /\ streamState' = NoStream
                     /\ UNCHANGED <<res, loop>>
                ELSE /\ res' = ResEnd(res)
                     /\ loop' = Attempted(loop, "success")
                     /\ pc' = "done"
                     /\ UNCHANGED <<thrown, streamState>>
       \/ \* a chunk of the body
          \E v \in ReadValues :
             /\ ReadFits(streamState.buffer, v)
             /\ streamState.evCount + NewEvents(streamState.buffer, v) <= MaxEvents
             /\ res' = ResWrite(res, CompletionsFrames(v.lines, streamState.completionId, now))
             /\ streamState' = [streamState EXCEPT
                    !.buffer = v.tail,
                    !.evCount = @ + NewEvents(streamState.buffer, v)]
             /\ UNCHANGED <<pc, thrown, loop, errorLog>>
    /\ UNCHANGED <<logFiles, createServerVars, call, result, config, cache, req, modelId, lastAttempt,
                   dispatches, requestCount, now>>

\* handleAnthropicCompletions: catch (error) of one region
CompletionsLoopCatch ==
    /\ pc = "co_catch"
    /\ LET retry == ShouldRetryCompletions(thrown)
           class == IF retry THEN "retryable" ELSE "terminal"
           l == [Attempted(loop, class) EXCEPT !.lastError = thrown]
       IN  /\ lastAttempt' = [loop |-> "completions", status |-> thrown.status,
                              message |-> thrown.message, class |-> class]
           /\ IF LoopVerdict(retry) = "retryable" /\ l.ri < Len(l.regions)
              THEN /\ loop' = NextRegion(l)
                   /\ thrown' = NoError
                   /\ pc' = "co_token"
              ELSE /\ loop' = l
                   /\ thrown' = thrown
                   /\ pc' = "completions_catch"
    /\ UNCHANGED <<logFiles, createServerVars, call, result, config, cache, req, modelId, dispatches, requestCount,
                   res, streamState, errorLog, now>>

\* handleCompletions: catch (error)
CompletionsCatch ==
    /\ pc = "completions_catch"
    /\ errorLog' = errorLog \cup {"handler_error"}
    /\ IF res.headersSent
       THEN res' = IF ~res.ended THEN ResEnd(res) ELSE res
       ELSE res' = ResJson(res, 500, "error", thrown.message, StatusOr500(thrown))
    /\ pc' = "done"
    /\ UNCHANGED <<logFiles, createServerVars, call, result, config, cache, req, modelId, loop, thrown, lastAttempt, dispatches,
                   requestCount, streamState, now>>

\* ------------------------------------------------------------------------
\* POST /v1/messages
\* ------------------------------------------------------------------------

\* the lines handleAnthropicMessages passes through: event: and data: lines
RECURSIVE MessagesFrames(_)
MessagesFrames(lines) ==
    IF lines = <<>> THEN <<>>
    ELSE (IF Head(lines) = "other" THEN <<>> ELSE <<RawFrame>>) \o MessagesFrames(Tail(lines))

\* handleAnthropicMessages up to the failover loop
MessagesEntry ==
    /\ pc = "messages_entry"
    /\ LET mid == resolveModel(req.model, config)
           regions == getRegionFallbackOrder(mid, cache)
       IN  /\ modelId' = mid
           /\ lastAttempt' = NoAttempt
           /\ requestCount' = requestCount + 1
           /\ loop' = StartLoop("messages", regions)
           /\ pc' = "ms_token"
    /\ UNCHANGED <<logFiles, createServerVars, call, result, config, cache, req, thrown, dispatches, res, streamState, errorLog, now>>

\* handleAnthropicMessages after the loop, or the next iteration: all regions
\* failed -> res.status(lastError?.status || 500).json({error}); Express
\* throws when the headers were sent, and the handler's promise rejects
MessagesContinue(l) ==
    IF l.ri < Len(l.regions)
    THEN /\ loop' = NextRegion(l)
         /\ pc' = "ms_token"
         /\ res' = res
         /\ errorLog' = errorLog
    ELSE /\ loop' = l
         /\ errorLog' = errorLog \cup {"all_regions_failed"}
         /\ res' = ResJson(res, StatusOr500(l.lastError), "error", l.lastError.message,
                           StatusOr500(l.lastError))
         /\ pc' = IF res.headersSent THEN "rejected" ELSE "done"

\* handleAnthropicMessages: the access token
MessagesToken ==
    /\ pc = "ms_token"
    /\ \E ok \in BOOLEAN :
          IF ok THEN pc' = "ms_fetch" /\ thrown' = thrown
          ELSE pc' = "ms_catch" /\ thrown' = AuthError
    /\ UNCHANGED <<logFiles, createServerVars, call, result, config, cache, req, modelId, loop, lastAttempt,
                   dispatches, requestCount, res, streamState, errorLog, now>>

\* handleAnthropicMessages: the POST and what follows up to the next await
MessagesFetch ==
    /\ pc = "ms_fetch"
    /\ \E o \in UpstreamOutcomes :
          IF o.kind = "reject"
          THEN /\ thrown' = [status |-> NoStatus, message |-> o.body]
               /\ pc' = "ms_catch"
               /\ loop' = Called(loop)
               /\ UNCHANGED <<res, streamState, errorLog, lastAttempt>>
          ELSE IF ~ResponseOk(o.status)
          THEN LET error == [status |-> o.status, message |-> o.body]
                   retry == ShouldRetryMessages(error)
               IN  IF LoopVerdict(retry) = "retryable"
                   THEN \* lastError = error; continue
                        /\ lastAttempt' = [loop |-> "messages", status |-> error.status,
                                           message |-> error.message, class |-> "retryable"]
                        /\ MessagesContinue([Attempted(Called(loop), "retryable")
                                               EXCEPT !.lastError = error])
                        /\ UNCHANGED <<thrown, streamState>>
                   ELSE /\ thrown' = error
                        /\ pc' = "ms_catch"
                        /\ loop' = Called(loop)
                        /\ UNCHANGED <<res, streamState, errorLog, lastAttempt>>
          ELSE IF ~req.stream
          THEN /\ pc' = "ms_json"
               /\ loop' = Called(loop)
               /\ UNCHANGED <<thrown, res, streamState, errorLog, lastAttempt>>
          ELSE IF res.headersSent
          THEN \* res.setHeader after the headers were sent throws
               /\ thrown' = HeadersSentError
               /\ pc' = "ms_catch"
               /\ loop' = Called(loop)
               /\ UNCHANGED <<res, streamState, errorLog, lastAttempt>>
          ELSE /\ loop' = IF o.hasBody THEN Called(loop)
                          ELSE Attempted(Called(loop), "success")
               /\ streamState' = OpenStream("messages", o.hasBody, -1)
               /\ res' = IF o.hasBody THEN res ELSE ResEnd(res)
               /\ pc' = IF o.hasBody THEN "ms_read" ELSE "done"
               /\ UNCHANGED <<thrown, errorLog, lastAttempt>>
    /\ UNCHANGED <<logFiles, createServerVars, call, result, config, cache, req, modelId, dispatches, requestCount, now>>

\* handleAnthropicMessages, non-streaming: response.json() and res.json(data)
MessagesJson ==
    /\ pc = "ms_json"
    /\ \E ok \in BOOLEAN :
          IF ok
          THEN /\ res' = ResJson(res, 200, "completion", <<>>, 200)
               /\ loop' = Attempted(loop, "success")
               /\ pc' = "done"
               /\ thrown' = thrown
          ELSE /\ thrown' = ParseError
               /\ pc' = "ms_catch"
               /\ UNCHANGED <<res, loop>>
    /\ UNCHANGED <<logFiles, createServerVars, call, result, config, cache, req, modelId, lastAttempt,
                   dispatches, requestCount, streamState, errorLog, now>>

\* handleAnthropicMessages: one reader.read() of the passthrough loop
MessagesRead ==
    /\ pc = "ms_read"
    /\ \/ \* done: res.end(), return
          /\ res' = ResEnd(res)
          /\ loop' = Attempted(loop, "success")
          /\ pc' = "done"
          /\ UNCHANGED <<thrown, streamState>>
       \/ \* the read rejects: the catch of the region loop gets it
          \E e \in ReadErrors :
             /\ thrown' = e
             /\ pc' = "ms_catch"
             /\ streamState' = NoStream
             /\ UNCHANGED <<res, loop>>
       \/ \* a chunk of the body
          \E v \in ReadValues :
             /\ ReadFits(streamState.buffer, v)
             /\ streamState.evCount + NewEvents(streamState.buffer, v) <= MaxEvents
             /\ res' = ResWrite(res, MessagesFrames(v.lines))
             /\ streamState' = [streamState EXCEPT
                    !.buffer = v.tail,
                    !.evCount = @ + NewEvents(streamState.buffer, v)]
             /\ UNCHANGED <<pc, thrown, loop>>
    /\ UNCHANGED <<logFiles, createServerVars, call, result, config, cache, req, modelId, lastAttempt,
                   dispatches, requestCount, errorLog, now>>

\* handleAnthropicMessages: catch (error) of one region; a rethrown error
\* leaves the handler, whose promise nobody awaits
MessagesCatch ==
    /\ pc = "ms_catch"
    /\ LET retry == ShouldRetryMessages(thrown)
           class == IF retry THEN "retryable" ELSE "terminal"
           l == [Attempted(loop, class) EXCEPT !.lastError = thrown]
       IN  /\ lastAttempt' = [loop |-> "messages", status |-> thrown.status,
                              message |-> thrown.message, class |-> class]
           /\ IF LoopVerdict(retry) = "retryable"
              THEN /\ MessagesContinue(l)
                   /\ thrown' = NoError
              ELSE /\ loop' = l
                   /\ thrown' = thrown
                   /\ pc' = "rejected"
                   /\ UNCHANGED <<res, errorLog>>
    /\ UNCHANGED <<logFiles, createServerVars, call, result, config, cache, req, modelId, dispatches, requestCount,
                   streamState, now>>

Next ==
    \/ Ingress
    \/ Tick
    \/ ClientClose
    \/ ChatEntry
    \/ AnthropicChatToken
    \/ AnthropicChatFetch
    \/ AnthropicChatJson
    \/ AnthropicChatRead
    \/ FallbackCatch
    \/ ChatCatch
    \/ GeminiChatStart
    \/ GeminiChatCall
    \/ GeminiChatIter
    \/ GenAIChatStart
    \/ GenAIChatCall
    \/ GenAIChatIter
    \/ CompletionsEntry
    \/ CompletionsToken
    \/ CompletionsFetch
    \/ CompletionsJson
    \/ CompletionsRead
    \/ CompletionsLoopCatch
    \/ CompletionsCatch
    \/ MessagesEntry
    \/ MessagesToken
    \/ MessagesFetch
    \/ MessagesJson
    \/ MessagesRead
    \/ MessagesCatch

Spec == Init /\ [][Next]_vars

\* ------------------------------------------------------------------------
\* Helper functions of request preparation
\* ------------------------------------------------------------------------

\* modelSpec?.provider || 'anthropic'
ProviderOf(mid) ==
    IF getModelSpec(mid) = NoSpec THEN "anthropic" ELSE getModelSpec(mid).provider

\* model_aliases of a config file: targets that are an unversioned Claude
\* name, another alias, a catalog id and an image model
FileAliases ==
    [a \in {<<"fast">>, <<"best">>, <<"sonnet">>, <<"draw">>} |->
        IF a = <<"fast">> THEN <<"claude-", "haiku-4-5">>
        ELSE IF a = <<"best">> THEN <<"sonnet">>
        ELSE IF a = <<"draw">> THEN Imagen4
        ELSE Sonnet]

AliasTables == {DefaultAliases, FileAliases}

Configs == [model_aliases : AliasTables, fallback_chains : {NoChains}]

\* model strings handed to resolveModel
ResolveInputs ==
    ModelInputs \cup
    { <<"fast">>, <<"best">>, <<"draw">>, <<"gpt-4">>, <<"gpt-5">>, <<"claude-">>,
      <<"claude-", "zeta">>, <<"claude-", "opus-4-5">>,
      <<"claude-", "3-opus", "@", "20240229">> }

\* the region cache file (RegionCache), absent or written by a discovery run
NoCacheFile == [present |-> FALSE, projectId |-> "", lastUpdated |-> 0, models |-> NoCache]

\* CACHE_TTL_MS, in hours
CACHE_TTL_MS == 24

CacheModelTables ==
    { [m \in {Opus} |-> <<"europe-west1", "us-east5">>],
      [m \in {Opus, Sonnet, <<"gpt-5">>} |->
          IF m = Opus THEN <<"asia-southeast1", "europe-west1", "us-west1", "us-central1">>
          ELSE IF m = Sonnet THEN <<>>
          ELSE <<"us-west1">>] }

CacheFiles ==
    {NoCacheFile} \cup
    [present : {TRUE}, projectId : {"p1", "p2"}, lastUpdated : {0}, models : CacheModelTables]

\* loadRegionCache() as getRegionFallbackOrder reads it: cache && cache.models
loadRegionCache(file) == IF file.present THEN file.models ELSE NoCache

\* isCacheValid of regions.ts
isCacheValid(file, projectId, t) ==
    /\ file.present
    /\ file.projectId = projectId
    /\ ~(t - file.lastUpdated > CACHE_TTL_MS)

\* extractSystemMessage: system is null until a system message is seen
NullSystem == [null |-> TRUE, text |-> <<>>]

Separator == "\n\n"

\* a string is truthy when it is neither null nor empty
Truthy(system) == ~system.null /\ system.text # <<>>

RECURSIVE ExtractFrom(_, _, _, _)
\* the for loop of extractSystemMessage from message i on
ExtractFrom(messages, i, system, filteredMessages) ==
    IF i > Len(messages) THEN [system |-> system, messages |-> filteredMessages]
    ELSE IF messages[i].role = "system"
    THEN ExtractFrom(messages, i + 1,
                     IF Truthy(system)
                     THEN [null |-> FALSE,
                           text |-> system.text \o <<Separator>> \o messages[i].content]
                     ELSE [null |-> FALSE, text |-> messages[i].content],
                     filteredMessages)
    ELSE ExtractFrom(messages, i + 1, system, Append(filteredMessages, messages[i]))

extractSystemMessage(messages) == ExtractFrom(messages, 1, NullSystem, <<>>)

\* if (system) requestBody.system = system; systemInstruction: system || undefined
RequestSystem(system) ==
    IF Truthy(system) THEN [present |-> TRUE, text |-> system.text]
    ELSE [present |-> FALSE, text |-> <<>>]

\* an estimate that rounds down
estimateTokensFloor(text) == Len(text) \div 4

\* estimateTokens: Math.ceil(text.length / 4)
estimateTokens(text) == (Len(text) + 3) \div 4

keepLast == 4

\* messages.slice(-k)
SliceLast(messages, k) ==
    SubSeq(messages, IF Len(messages) > k THEN Len(messages) - k + 1 ELSE 1, Len(messages))

\* messages.slice(0, -k)
SliceButLast(messages, k) ==
    IF Len(messages) > k THEN SubSeq(messages, 1, Len(messages) - k) ELSE <<>>

RECURSIVE LastTokens(_)
\* totalTokens after the loop over lastMessages
LastTokens(lastMessages) ==
    IF lastMessages = <<>> THEN 0
    ELSE estimateTokens(Head(lastMessages).content) + LastTokens(Tail(lastMessages))

RECURSIVE KeepEarlier(_, _, _, _, _)
\* the loop over earlierMessages from index i down, with unshift and break
KeepEarlier(earlierMessages, i, totalTokens, targetTokens, keptEarlier) ==
    IF i < 1 THEN [kept |-> keptEarlier, truncated |-> FALSE]
    ELSE IF totalTokens + estimateTokens(earlierMessages[i].content) > targetTokens
    THEN [kept |-> keptEarlier, truncated |-> TRUE]
    ELSE KeepEarlier(earlierMessages, i - 1,
                     totalTokens + estimateTokens(earlierMessages[i].content),
                     targetTokens, <<earlierMessages[i]>> \o keptEarlier)

\* a truncation that puts the kept earlier messages after the last ones
truncateMessagesReordered(messages, maxTokens, reserveTokens) ==
    LET lastMessages == SliceLast(messages, keepLast)
        earlierMessages == SliceButLast(messages, keepLast)
        r == KeepEarlier(earlierMessages, Len(earlierMessages), LastTokens(lastMessages),
                         maxTokens - reserveTokens, <<>>)
    IN  [messages |-> lastMessages \o r.kept, truncated |-> r.truncated]

truncateMessages(messages, maxTokens, reserveTokens) ==
    LET lastMessages == SliceLast(messages, keepLast)
        earlierMessages == SliceButLast(messages, keepLast)
        r == KeepEarlier(earlierMessages, Len(earlierMessages), LastTokens(lastMessages),
                         maxTokens - reserveTokens, <<>>)
    IN  [messages |-> r.kept \o lastMessages, truncated |-> r.truncated]

\* message lists of up to n messages with the given roles and contents
MessageLists(n, roles, contents) ==
    UNION { [1..k -> [role : roles, content : contents]] : k \in 0..n }

\* max_tokens || modelSpec?.maxTokens || 4096 of a request without max_tokens
DefaultMaxTokens == 4096

MaxTokensFor(spec) == IF spec.maxTokens # 0 THEN spec.maxTokens ELSE DefaultMaxTokens

\* no request is sent upstream: the handler answers 400
NoUpstream(mid) ==
    [sent |-> FALSE, modelId |-> mid, regions |-> <<>>, publisher |-> "none",
     urlModel |-> <<>>, urlRegion |-> "none", max_tokens |-> 0, contextWindow |-> -1]

\* the request handleAnthropicChat, handleAnthropicCompletions and
\* handleAnthropicMessages build for the first region of the plan
AnthropicUpstream(mid, cacheModels, contextWindow) ==
    LET regions == getRegionFallbackOrder(mid, cacheModels)
    IN  [sent |-> TRUE, modelId |-> mid, regions |-> regions, publisher |-> "anthropic",
         urlModel |-> mid, urlRegion |-> regions[1],
         max_tokens |-> MaxTokensFor(getModelSpec(mid)), contextWindow |-> contextWindow]

\* handleChatCompletions: resolution, auto-truncation window, dispatch
ChatUpstream(modelInput, cfg, cacheModels) ==
    LET mid == resolveModel(modelInput, cfg)
        spec == getModelSpec(mid)
        window == IF spec # NoSpec THEN spec.contextWindow ELSE -1
    IN  IF ProviderOf(mid) = "anthropic" THEN AnthropicUpstream(mid, cacheModels, window)
        ELSE IF ProviderOf(mid) = "google"
        THEN [sent |-> TRUE, modelId |-> mid, regions |-> <<>>, publisher |-> "google",
              urlModel |-> mid, urlRegion |-> spec.regions[1],
              max_tokens |-> MaxTokensFor(spec), contextWindow |-> window]
        ELSE NoUpstream(mid)

\* handleCompletions
CompletionsUpstream(modelInput, cfg, cacheModels) ==
    LET mid == resolveModel(modelInput, cfg)
    IN  IF ProviderOf(mid) = "anthropic" THEN AnthropicUpstream(mid, cacheModels, -1)
        ELSE NoUpstream(mid)

\* handleAnthropicMessages
MessagesUpstream(modelInput, cfg, cacheModels) ==
    AnthropicUpstream(resolveModel(modelInput, cfg), cacheModels, -1)

\* handleImageGeneration: config.model_aliases[model] || model
ImageUpstream(modelInput, cfg) ==
    LET resolvedModel == IF modelInput \in DOMAIN cfg.model_aliases
                            /\ cfg.model_aliases[modelInput] # <<>>
                         THEN cfg.model_aliases[modelInput] ELSE modelInput
        spec == getModelSpec(resolvedModel)
    IN  IF spec = NoSpec \/ spec.provider # "imagen" THEN NoUpstream(resolvedModel)
        ELSE [sent |-> TRUE, modelId |-> resolvedModel, regions |-> <<>>,
              publisher |-> "google", urlModel |-> resolvedModel,
              urlRegion |-> "us-central1", max_tokens |-> 0, contextWindow |-> -1]

AllRoutes == Routes \cup {"images"}

UpstreamRequest(route, modelInput, cfg, cacheModels) ==
    IF route = "chat" THEN ChatUpstream(modelInput, cfg, cacheModels)
    ELSE IF route = "completions" THEN CompletionsUpstream(modelInput, cfg, cacheModels)
    ELSE IF route = "messages" THEN MessagesUpstream(modelInput, cfg, cacheModels)
    ELSE ImageUpstream(modelInput, cfg)

\* the arguments the helpers are applied to
\* ------------------------------------------------------------------------
\* Translation of the inbound messages into the upstream body
\* ------------------------------------------------------------------------

\* JSON texts that parse
ValidJson == {"{}", "{\"q\":1}"}

\* JSON.parse(text): the value, or a SyntaxError
JSONParse(text) ==
    IF text \in ValidJson
    THEN [threw |-> FALSE, value |-> text]
    ELSE [threw |-> TRUE, value |-> "SyntaxError"]

\* msg.content: a string, or an array of content parts
StringContent(text) == [type |-> "string", text |-> text]

PartsContent == [type |-> "array", text |-> ""]

\* msg.tool_calls: absent, or an array of calls given by their
\* function.arguments strings
NoToolCalls == [present |-> FALSE, arguments |-> <<>>]

ToolCalls(arguments) == [present |-> TRUE, arguments |-> arguments]

\* the tool_use blocks of an array of tool calls:
\* input: JSON.parse(toolCall.function.arguments || '{}')
RECURSIVE ToolUseBlocks(_)
ToolUseBlocks(arguments) ==
    IF arguments = <<>> THEN [threw |-> FALSE, blocks |-> <<>>]
    ELSE LET text == IF Head(arguments) = "" THEN "{}" ELSE Head(arguments)
             input == JSONParse(text)
             rest == ToolUseBlocks(Tail(arguments))
         IN  IF input.threw \/ rest.threw
             THEN [threw |-> TRUE, blocks |-> <<>>]
             ELSE [threw |-> FALSE, blocks |-> <<"tool_use">> \o rest.blocks]

\* handleAnthropicChat, one message of "Convert messages to Anthropic format"
AnthropicMessage(msg) ==
    IF msg.role = "tool"
    THEN [threw |-> FALSE, role |-> "user",
          blocks |-> IF msg.content.type = "string" THEN <<"tool_result">> ELSE <<>>]
    ELSE IF msg.role = "assistant" /\ msg.tool_calls.present
    THEN LET text == IF msg.content.type = "string" /\ msg.content.text # ""
                     THEN <<"text">> ELSE <<>>
             uses == ToolUseBlocks(msg.tool_calls.arguments)
         IN  [threw |-> uses.threw, role |-> "assistant", blocks |-> text \o uses.blocks]
    ELSE [threw |-> FALSE, role |-> msg.role, blocks |-> <<"content">>]

\* extractSystemAndMessages, one message that is not a system message
PoolMessage(msg) ==
    IF msg.role = "tool"
    THEN [threw |-> FALSE, role |-> "user", blocks |-> <<"tool_result">>]
    ELSE IF msg.role = "assistant" /\ Len(msg.tool_calls.arguments) > 0
    THEN LET uses == ToolUseBlocks(msg.tool_calls.arguments)
         IN  [threw |-> uses.threw, role |-> "assistant", blocks |-> uses.blocks]
    ELSE [threw |-> FALSE, role |-> msg.role, blocks |-> <<"content">>]

\* the loop of a translator over the message list: an exception of one
\* message leaves the loop and the function
RECURSIVE TranslateFrom(_, _, _)
TranslateFrom(translator, messages, i) ==
    IF i > Len(messages) THEN [threw |-> FALSE, messages |-> <<>>]
    ELSE LET one == IF translator = "handleAnthropicChat"
                    THEN AnthropicMessage(messages[i]) ELSE PoolMessage(messages[i])
         IN  IF one.threw THEN [threw |-> TRUE, messages |-> <<>>]
             ELSE LET rest == TranslateFrom(translator, messages, i + 1)
                  IN  IF rest.threw THEN rest
                      ELSE [threw |-> FALSE,
                            messages |-> <<[role |-> one.role, blocks |-> one.blocks]>>
                                         \o rest.messages]

\* the messages of the upstream body as a translator builds them
buildRequestBody(translator, messages) == TranslateFrom(translator, messages, 1)

Translators == {"handleAnthropicChat", "extractSystemAndMessages"}

BodyMessages ==
    [role : {"user", "assistant", "tool"},
     content : {StringContent("hi"), StringContent(""), PartsContent},
     tool_calls : {NoToolCalls, ToolCalls(<<>>), ToolCalls(<<"">>), ToolCalls(<<"{}">>),
                   ToolCalls(<<"{bad">>)}]

BodyCalls ==
    [fn : {"buildRequestBody"}, translator : Translators,
     messages : UNION { [1..n -> BodyMessages] : n \in 0..MaxBodyMessages }]

\* ------------------------------------------------------------------------
\* Translation of a non-streaming upstream response into a chat completion
\* ------------------------------------------------------------------------

\* JSON.stringify(block.input) of a tool_use block's input object, given by
\* its keys
JSONStringify(input) == IF input = <<>> THEN "{}" ELSE "{\"q\":1}"

TextBlock == [type |-> "text", id |-> "", input |-> <<>>]

ToolUseBlock(id, input) == [type |-> "tool_use", id |-> id, input |-> input]

\* the blocks of the given type, in order
RECURSIVE BlocksOfType(_, _)
BlocksOfType(content, type) ==
    IF content = <<>> THEN <<>>
    ELSE (IF Head(content).type = type THEN <<Head(content)>> ELSE <<>>)
         \o BlocksOfType(Tail(content), type)

\* toolCalls.push({ id: block.id, type: 'function', function: { name,
\* arguments: JSON.stringify(block.input) } })
RECURSIVE ToolCallsOf(_)
ToolCallsOf(blocks) ==
    IF blocks = <<>> THEN <<>>
    ELSE <<[id |-> Head(blocks).id, arguments |-> JSONStringify(Head(blocks).input)]>>
         \o ToolCallsOf(Tail(blocks))

\* handleAnthropicChat, non-streaming branch: "Convert to OpenAI format".
\* The message holds role and content only.
AnthropicChatCompletion(data) ==
    [content |-> Len(BlocksOfType(data.content, "text")),
     has_tool_calls |-> FALSE,
     tool_calls |-> <<>>,
     finish_reason |-> IF data.stop_reason = "end_turn" THEN "stop" ELSE data.stop_reason]

\* createServer, chat route, the result built from client.messages.create
PoolChatCompletion(response) ==
    LET toolCalls == ToolCallsOf(BlocksOfType(response.content, "tool_use"))
    IN  [content |-> Len(BlocksOfType(response.content, "text")),
         has_tool_calls |-> Len(toolCalls) > 0,
         tool_calls |-> toolCalls,
         finish_reason |-> IF Len(toolCalls) > 0 THEN "tool_calls" ELSE "stop"]

chatCompletion(server, data) ==
    IF server = "startProxy" THEN AnthropicChatCompletion(data)
    ELSE PoolChatCompletion(data)

Servers == {"startProxy", "createServer"}

ResponseBlocks == {TextBlock, ToolUseBlock("t1", <<>>), ToolUseBlock("t2", <<"q">>)}

StopReasons == {"end_turn", "tool_use", "max_tokens"}

CompletionCalls ==
    [fn : {"chatCompletion"}, server : Servers,
     content : UNION { [1..n -> ResponseBlocks] : n \in 0..MaxResponseBlocks },
     stop_reason : StopReasons]

\* ------------------------------------------------------------------------
\* GET /v1/models
\* ------------------------------------------------------------------------

\* one entry of data: id, owned_by and root (the vendor block repeats the
\* catalog spec of root)
CatalogEntry(spec) ==
    [id |-> spec.id,
     owned_by |-> IF spec.provider = "anthropic" THEN "anthropic" ELSE "google",
     root |-> spec.id]

\* handleModels with root: alias in the alias entries
handleModelsRootAlias(cfg) ==
    { CatalogEntry(MODEL_CATALOG[i]) : i \in 1..Len(MODEL_CATALOG) }
    \cup { [id |-> alias, owned_by |-> "vertex-proxy", root |-> alias] :
             alias \in { a \in DOMAIN cfg.model_aliases :
                           getModelSpec(cfg.model_aliases[a]) # NoSpec } }

\* handleModels: the data array of the answer. Catalog entries are distinct
\* by id, alias entries by their key, and the two kinds by owned_by, so the
\* array is given as the set of its entries.
handleModels(cfg) ==
    { CatalogEntry(MODEL_CATALOG[i]) : i \in 1..Len(MODEL_CATALOG) }
    \cup { [id |-> alias, owned_by |-> "vertex-proxy", root |-> cfg.model_aliases[alias]] :
             alias \in { a \in DOMAIN cfg.model_aliases :
                           getModelSpec(cfg.model_aliases[a]) # NoSpec } }

ModelsCalls == [fn : {"handleModels"}, config : Configs]

ResolveCalls == [fn : {"resolveModel"}, modelInput : ResolveInputs, config : Configs]

PlanCalls ==
    [fn : {"getRegionFallbackOrder"}, modelId : {Opus, Sonnet, Gemini25Pro, <<"gpt-5">>},
     cacheFile : CacheFiles, projectId : {"p1"}, now : {CACHE_TTL_MS, CACHE_TTL_MS + 1}]

ExtractCalls ==
    [fn : {"extractSystemMessage"},
     messages : MessageLists(MaxExtractMessages, {"system", "user"},
                             {<<>>, <<"a">>, <<"b">>})]

TruncateCalls ==
    [fn : {"truncateMessages"},
     messages : MessageLists(MaxTruncateMessages, {"user"},
                             {<<>>, <<"a">>, <<"b", "c", "d", "e", "f">>}),
     maxTokens : {4, 8}, reserveTokens : {2, 9}]

UpstreamCalls ==
    [fn : {"upstreamRequest"}, route : AllRoutes, modelInput : ResolveInputs,
     config : Configs, cacheModels : CacheTables]

serverVars == <<config, cache, req, pc, modelId, loop, thrown, lastAttempt,
                dispatches, requestCount, res, streamState, errorLog, now>>

HelperInit ==
    /\ \/ call \in ResolveCalls
       \/ call \in PlanCalls
       \/ call \in ExtractCalls
       \/ call \in TruncateCalls
       \/ call \in UpstreamCalls
       \/ call \in BodyCalls
       \/ call \in CompletionCalls
       \/ call \in ModelsCalls
    /\ result = NotApplied
    /\ logFiles = NoLogFiles
    /\ queue = NoQueue
    /\ pool = NoPool
    /\ tasks = NoTasks
    /\ config = [model_aliases |-> DefaultAliases, fallback_chains |-> NoChains]
    /\ cache = NoCache
    /\ req = NoReq
    /\ pc = "idle"
    /\ modelId = <<>>
    /\ loop = NoLoop
    /\ thrown = NoError
    /\ lastAttempt = NoAttempt
    /\ dispatches = 0
    /\ requestCount = 0
    /\ res = NewRes
    /\ streamState = NoStream
    /\ errorLog = {}
    /\ now = 0

\* const modelId = resolveModel(modelInput, config); provider of its spec
ApplyResolveModel ==
    /\ call.fn = "resolveModel"
    /\ ~result.applied
    /\ LET mid == resolveModel(call.modelInput, call.config)
       IN  result' = [applied |-> TRUE, modelId |-> mid, provider |-> ProviderOf(mid),
                      inCatalog |-> InCatalog(mid)]
    /\ UNCHANGED <<call, serverVars, logFiles, createServerVars>>

\* const regions = getRegionFallbackOrder(modelId)
ApplyGetRegionFallbackOrder ==
    /\ call.fn = "getRegionFallbackOrder"
    /\ ~result.applied
    /\ result' = [applied |-> TRUE,
                  regions |-> getRegionFallbackOrder(call.modelId,
                                                     loadRegionCache(call.cacheFile))]
    /\ UNCHANGED <<call, serverVars, logFiles, createServerVars>>

\* const { system, messages: cleanMessages } = extractSystemMessage(messages),
\* and the system field of the upstream request
ApplyExtractSystemMessage ==
    /\ call.fn = "extractSystemMessage"
    /\ ~result.applied
    /\ LET r == extractSystemMessage(call.messages)
       IN  result' = [applied |-> TRUE, system |-> r.system, messages |-> r.messages,
                      requestSystem |-> RequestSystem(r.system)]
    /\ UNCHANGED <<call, serverVars, logFiles, createServerVars>>

\* const result = truncateMessages(cleanMessages, contextWindow, reserve)
ApplyTruncateMessages ==
    /\ call.fn = "truncateMessages"
    /\ ~result.applied
    /\ LET r == truncateMessages(call.messages, call.maxTokens, call.reserveTokens)
       IN  result' = [applied |-> TRUE, messages |-> r.messages, truncated |-> r.truncated]
    /\ UNCHANGED <<call, serverVars, logFiles, createServerVars>>

\* a route handler up to its first upstream request
ApplyUpstreamRequest ==
    /\ call.fn = "upstreamRequest"
    /\ ~result.applied
    /\ result' = [applied |-> TRUE,
                  request |-> UpstreamRequest(call.route, call.modelInput, call.config,
                                              call.cacheModels)]
    /\ UNCHANGED <<call, serverVars, logFiles, createServerVars>>

\* the message translation of a handler, up to the body or the exception
ApplyBuildRequestBody ==
    /\ call.fn = "buildRequestBody"
    /\ ~result.applied
    /\ LET r == buildRequestBody(call.translator, call.messages)
       IN  result' = [applied |-> TRUE, threw |-> r.threw, messages |-> r.messages]
    /\ UNCHANGED <<call, serverVars, logFiles, createServerVars>>

\* the chat completion a server answers for a non-streaming upstream response
ApplyChatCompletion ==
    /\ call.fn = "chatCompletion"
    /\ ~result.applied
    /\ result' = [applied |-> TRUE,
                  completion |-> chatCompletion(call.server,
                                                [content |-> call.content,
                                                 stop_reason |-> call.stop_reason])]
    /\ UNCHANGED <<call, serverVars, logFiles, createServerVars>>

\* app.get('/v1/models', ...): res.json({ object: 'list', data: models })
ApplyHandleModels ==
    /\ call.fn = "handleModels"
    /\ ~result.applied
    /\ result' = [applied |-> TRUE, data |-> handleModels(call.config)]
    /\ UNCHANGED <<call, serverVars, logFiles, createServerVars>>

HelperNext ==
    \/ ApplyBuildRequestBody
    \/ ApplyChatCompletion
    \/ ApplyHandleModels
    \/ ApplyResolveModel
    \/ ApplyGetRegionFallbackOrder
    \/ ApplyExtractSystemMessage
    \/ ApplyTruncateMessages
    \/ ApplyUpstreamRequest

HelperSpec == HelperInit /\ [][HelperNext]_vars

\* the request handlers of startProxy at rest
HandlersIdle ==
    /\ config = [model_aliases |-> DefaultAliases, fallback_chains |-> NoChains]
    /\ cache = NoCache
    /\ req = NoReq
    /\ pc = "idle"
    /\ modelId = <<>>
    /\ loop = NoLoop
    /\ thrown = NoError
    /\ lastAttempt = NoAttempt
    /\ dispatches = 0
    /\ requestCount = 0
    /\ res = NewRes
    /\ streamState = NoStream
    /\ errorLog = {}
    /\ call = NoCall
    /\ result = NotApplied

\* ------------------------------------------------------------------------
\* log(): the log file and its rotation
\* ------------------------------------------------------------------------

\* 10 * 1024 * 1024 bytes, counted in MiB
LogSizeLimit == 10

\* sizes of a log line, in the same unit
LineSizes == {1, 4, 11}

\* a log() that copies the live file to <path>.1 and keeps writing to it
logCopyToBackup(files, n) ==
    LET appended == IF files.live.exists
                    THEN [files.live EXCEPT !.size = @ + n]
                    ELSE [exists |-> TRUE, size |-> n, id |-> files.nextId]
        nextId == IF files.live.exists THEN files.nextId ELSE files.nextId + 1
    IN  IF appended.size > LogSizeLimit
        THEN [live |-> appended, backup |-> appended, nextId |-> nextId, line |-> n]
        ELSE [live |-> appended, backup |-> files.backup, nextId |-> nextId, line |-> n]

\* log(message): appendFileSync creates the file when the path is free;
\* a file larger than the limit replaces <path>.1 (unlinkSync, renameSync)
log(files, n) ==
    LET appended == IF files.live.exists
                    THEN [files.live EXCEPT !.size = @ + n]
                    ELSE [exists |-> TRUE, size |-> n, id |-> files.nextId]
        nextId == IF files.live.exists THEN files.nextId ELSE files.nextId + 1
    IN  IF appended.size > LogSizeLimit
        THEN [live |-> NoFile, backup |-> appended, nextId |-> nextId, line |-> n]
        ELSE [live |-> appended, backup |-> files.backup, nextId |-> nextId, line |-> n]

\* the data directory a process finds: the files an earlier run left
LogInit ==
    /\ logFiles \in [live : {NoFile, [exists |-> TRUE, size |-> 4, id |-> 1],
                             [exists |-> TRUE, size |-> LogSizeLimit, id |-> 1]},
                     backup : {NoFile, [exists |-> TRUE, size |-> LogSizeLimit + 2, id |-> 0]},
                     nextId : {2}, line : {0}]
    /\ queue = NoQueue
    /\ pool = NoPool
    /\ tasks = NoTasks
    /\ now = 0
    /\ HandlersIdle

\* one call of log()
Log ==
    /\ logFiles.nextId <= MaxLogFiles
    /\ \E n \in LineSizes : logFiles' = log(logFiles, n)
    /\ UNCHANGED <<call, result, serverVars, createServerVars>>

LogNext == Log

LogSpec == LogInit /\ [][LogNext]_vars

\* ------------------------------------------------------------------------
\* createServer: RequestQueue
\* ------------------------------------------------------------------------

\* acquire() that never refuses: a caller over the limit always waits
acquireUnbounded(q, i) ==
    IF q.activeCount < q.maxConcurrent
    THEN [outcome |-> "granted", queue |-> [q EXCEPT !.activeCount = @ + 1]]
    ELSE [outcome |-> "queued", queue |-> [q EXCEPT !.queue = Append(@, i)]]

\* acquire(): a free slot, or 'Queue full', or a place in the queue
acquire(q, i) ==
    IF q.activeCount < q.maxConcurrent
    THEN [outcome |-> "granted", queue |-> [q EXCEPT !.activeCount = @ + 1]]
    ELSE IF Len(q.queue) >= q.maxQueueSize
    THEN [outcome |-> "rejected", queue |-> q]
    ELSE [outcome |-> "queued", queue |-> [q EXCEPT !.queue = Append(@, i)]]

\* release() that wakes the newest waiter
releaseNewest(q) ==
    IF q.queue # <<>>
    THEN [next |-> q.queue[Len(q.queue)],
          queue |-> [q EXCEPT !.activeCount = (@ - 1) + 1,
                              !.queue = SubSeq(@, 1, Len(@) - 1)]]
    ELSE [next |-> 0, queue |-> [q EXCEPT !.activeCount = @ - 1]]

\* release() that wakes the next waiter without counting it
releaseUncounted(q) ==
    IF q.queue # <<>>
    THEN [next |-> Head(q.queue),
          queue |-> [q EXCEPT !.activeCount = @ - 1, !.queue = Tail(@)]]
    ELSE [next |-> 0, queue |-> [q EXCEPT !.activeCount = @ - 1]]

\* release(): activeCount--, then the first waiter, if any, takes the slot
release(q) ==
    IF q.queue # <<>>
    THEN [next |-> Head(q.queue),
          queue |-> [q EXCEPT !.activeCount = (@ - 1) + 1, !.queue = Tail(@)]]
    ELSE [next |-> 0, queue |-> [q EXCEPT !.activeCount = @ - 1]]

\* ------------------------------------------------------------------------
\* createServer: ClientPool
\* ------------------------------------------------------------------------

\* getClaudeClient() that returns the first configured region
getClaudeClientFirst(p) == p.regions[1]

\* getClaudeClient(): the entries of regionHealth sorted by health,
\* descending; the sort is stable, so equal entries keep insertion order
getClaudeClient(p) ==
    LET best == CHOOSE k \in 1..Len(p.regions) :
                    /\ \A j \in 1..Len(p.regions) :
                          p.regionHealth[p.regions[j]] <= p.regionHealth[p.regions[k]]
                    /\ \A j \in 1..(k - 1) :
                          p.regionHealth[p.regions[j]] < p.regionHealth[p.regions[k]]
    IN  p.regions[best]

\* markRegionSuccess(region): regionHealth.set(region, Date.now())
markRegionSuccess(p, region, t) == [p EXCEPT !.regionHealth[region] = t]

\* markRegionFailure(region): regionHealth.set(region, 0)
markRegionFailure(p, region) == [p EXCEPT !.regionHealth[region] = 0]

\* ------------------------------------------------------------------------
\* createServer: POST /v1/chat/completions
\* ------------------------------------------------------------------------

\* finalConfig: maxConcurrent, queueSize, maxRetries, claudeRegions
ProxyConfigs ==
    [maxConcurrent : {1, 2}, queueSize : {1}, maxRetries : {2},
     claudeRegions : {<<"us-east5", "us-east1">>}]

\* getModelType(body.model) and body.stream of a request without tools
TaskKinds == [type : {"claude", "gemini"}, mode : {"stream", "json"}]

\* statuses of a failed upstream call: e.status
CallErrors == {429, 500, 400}

\* the responses started on an Express response: JSON bodies sent and the
\* SSE stream, if a frame was written
ResponsesStarted(r) == Len(r.jsonCalls) + (IF r.wire # <<>> THEN 1 ELSE 0)

\* a request of the chat route; of a finished request only the number of
\* responses started on its res and whether its res was ended are kept
NewTask ==
    [pc |-> "new", type |-> "none", mode |-> "none", region |-> "none", attempt |-> 0,
     calls |-> 0, lastStatus |-> NoStatus, res |-> NewRes, timer |-> "unset",
     waited |-> FALSE, responses |-> 0, ended |-> FALSE]

Requests == 1..MaxRequests

CreateServerInit ==
    /\ \E c \in ProxyConfigs :
          /\ config = c
          /\ queue = [maxConcurrent |-> c.maxConcurrent, maxQueueSize |-> c.queueSize,
                      activeCount |-> 0, queue |-> <<>>]
          /\ pool = [regions |-> c.claudeRegions,
                     regionHealth |-> [r \in {c.claudeRegions[k] : k \in 1..Len(c.claudeRegions)}
                                       |-> 1]]
    /\ tasks = [i \in Requests |-> NewTask]
    /\ now = 1
    /\ logFiles = NoLogFiles
    /\ cache = NoCache
    /\ req = NoReq
    /\ pc = "idle"
    /\ modelId = <<>>
    /\ loop = NoLoop
    /\ thrown = NoError
    /\ lastAttempt = NoAttempt
    /\ dispatches = 0
    /\ requestCount = 0
    /\ res = NewRes
    /\ streamState = NoStream
    /\ errorLog = {}
    /\ call = NoCall
    /\ result = NotApplied

\* what createServer leaves alone
startProxyVars == <<config, cache, req, pc, modelId, loop, thrown, lastAttempt, dispatches,
                    requestCount, res, streamState, errorLog, call, result, logFiles>>

\* catch (e) of the route: the 500 answer, unless the headers were sent
OuterCatch(t) ==
    IF t.res.headersSent THEN t
    ELSE [t EXCEPT !.res = ResJson(@, 500, "error", <<"Internal", "error">>, 500)]

\* a handler that returns without release() once the timeout has answered
FinallyUnlessTimedOut(i, t) ==
    LET rel == release(queue)
        done == [NewTask EXCEPT !.pc = "done", !.responses = ResponsesStarted(t.res),
                                !.ended = t.res.ended]
    IN  IF t.timer = "fired" /\ t.res.ended
        THEN /\ queue' = queue
             /\ tasks' = [tasks EXCEPT ![i] = done]
        ELSE /\ queue' = rel.queue
             /\ tasks' = IF rel.next = 0
                          THEN [tasks EXCEPT ![i] = done]
                          ELSE [tasks EXCEPT ![i] = done, ![rel.next].pc = "start"]

\* finally: clearTimeout(timeoutId); queue.release(); the handler returns,
\* and nothing of its locals and its response is kept
Finally(i, t) ==
    LET rel == release(queue)
        done == [NewTask EXCEPT !.pc = "done", !.responses = ResponsesStarted(t.res),
                                !.ended = t.res.ended]
    IN  /\ queue' = rel.queue
        /\ tasks' = IF rel.next = 0
                     THEN [tasks EXCEPT ![i] = done]
                     ELSE [tasks EXCEPT ![i] = done, ![rel.next].pc = "start"]

\* the head of the retry loop for a task whose attempt counter is set: the
\* loop ends with throw lastError, or getClaudeClient() picks a region and
\* the attempt runs up to its first await; res.setHeader throws when the
\* headers were sent, which leaves through both catch blocks
NextAttempt(i, t, p) ==
    /\ pool' = p
    /\ IF t.attempt >= config.maxRetries
       THEN Finally(i, OuterCatch(t))
       ELSE LET picked == [t EXCEPT !.region = getClaudeClient(p)]
            IN  IF picked.mode = "stream"
                THEN IF picked.res.headersSent
                     THEN Finally(i, [picked EXCEPT !.lastStatus = NoStatus])
                     ELSE /\ tasks' = [tasks EXCEPT ![i] =
                                 [picked EXCEPT !.res = ResWrite(@, <<RoleFrame(i, 0)>>),
                                                !.calls = @ + 1, !.pc = "call"]]
                          /\ queue' = queue
                ELSE /\ tasks' = [tasks EXCEPT ![i] =
                            [picked EXCEPT !.calls = @ + 1, !.pc = "call"]]
                     /\ queue' = queue

\* a request arrives: await queue.acquire(), or the 429 answer; requests
\* are numbered in the order of their arrival, and the body is read after
\* acquire()
Arrive(i) ==
    /\ tasks[i].pc = "new"
    /\ \A j \in 1..(i - 1) : tasks[j].pc # "new"
    /\ LET a == acquire(queue, i)
           t == tasks[i]
       IN     /\ queue' = a.queue
              /\ tasks' = [tasks EXCEPT ![i] =
                     IF a.outcome = "granted" THEN [t EXCEPT !.pc = "start"]
                     ELSE IF a.outcome = "queued"
                     THEN [t EXCEPT !.pc = "waiting", !.waited = TRUE]
                     ELSE [t EXCEPT !.pc = "rejected",
                                    !.res = ResJson(@, 429, "error",
                                                    <<"Too", "many", "requests">>, 429)]]
    /\ UNCHANGED <<pool, now, startProxyVars>>

\* the handler after acquire(): setTimeout, getModelType(body.model), then
\* the Gemini call or the first attempt of the Claude loop
Start(i) ==
    /\ tasks[i].pc = "start"
    /\ \E kind \in TaskKinds :
       LET t == [tasks[i] EXCEPT !.timer = "armed", !.type = kind.type, !.mode = kind.mode]
       IN  IF t.type = "gemini"
           THEN /\ tasks' = [tasks EXCEPT ![i] =
                       [t EXCEPT !.res = IF t.mode = "stream"
                                         THEN ResWrite(@, <<RoleFrame(i, 0)>>) ELSE @,
                                 !.calls = @ + 1, !.pc = "call"]]
                /\ UNCHANGED <<queue, pool>>
           ELSE NextAttempt(i, t, pool)
    /\ UNCHANGED <<now, startProxyVars>>

\* a content chunk of a live stream
StreamChunk(i) ==
    /\ tasks[i].pc = "call"
    /\ tasks[i].mode = "stream"
    /\ Len(tasks[i].res.wire) <= MaxChunks
    /\ tasks' = [tasks EXCEPT ![i].res = ResWrite(@, <<ContentFrame(i, 0)>>)]
    /\ UNCHANGED <<queue, pool, now, startProxyVars>>

\* the upstream call of a task ends well: markRegionSuccess for a Claude
\* region at the Date.now() of that moment, then the answer; res.json and
\* res.setHeader throw when the headers were sent
CallSucceeds(i) ==
    /\ tasks[i].pc = "call"
    /\ LET t == tasks[i]
       IN  /\ IF t.type = "claude"
              THEN \E time \in now..(now + 1) :
                      /\ time <= MaxClock
                      /\ now' = time
                      /\ pool' = markRegionSuccess(pool, t.region, time)
              ELSE UNCHANGED <<now, pool>>
           /\ IF t.mode = "stream"
              THEN Finally(i, [t EXCEPT !.res = ResEnd(ResWrite(@, <<StopFrame(i, 0),
                                                                        DoneFrame>>))])
              ELSE IF t.res.headersSent
              THEN Finally(i, [t EXCEPT !.lastStatus = NoStatus])
              ELSE Finally(i, [t EXCEPT !.res = ResJson(@, 200, "completion", <<>>, 200)])
    /\ UNCHANGED startProxyVars

\* the upstream call of a task throws: Gemini errors go to the catch of
\* the route; in the Claude loop 429 marks the region failed and continues,
\* a status of 500 or more sleeps before the next attempt, others are thrown
CallFails(i) ==
    /\ tasks[i].pc = "call"
    /\ \E status \in CallErrors :
          LET t == [tasks[i] EXCEPT !.lastStatus = status]
          IN  IF t.type = "gemini"
              THEN Finally(i, OuterCatch(t)) /\ pool' = pool
              ELSE IF status = 429
              THEN NextAttempt(i, [t EXCEPT !.attempt = @ + 1],
                               markRegionFailure(pool, t.region))
              ELSE IF status >= 500
              THEN /\ tasks' = [tasks EXCEPT ![i] = [t EXCEPT !.pc = "sleep"]]
                   /\ UNCHANGED <<queue, pool>>
              ELSE Finally(i, OuterCatch(t)) /\ pool' = pool
    /\ UNCHANGED <<now, startProxyVars>>

\* await sleep(...) is over: continue with the next attempt
Wake(i) ==
    /\ tasks[i].pc = "sleep"
    /\ NextAttempt(i, [tasks[i] EXCEPT !.attempt = @ + 1], pool)
    /\ UNCHANGED <<now, startProxyVars>>

\* a timer callback that answers 504 without looking at res.headersSent
TimeoutUnchecked(i) ==
    /\ tasks[i].pc \in {"call", "sleep"}
    /\ tasks[i].timer = "armed"
    /\ tasks' = [tasks EXCEPT ![i] =
           [@ EXCEPT !.timer = "fired",
                     !.res = ResJson(@, 504, "error", <<"Timeout">>, 504)]]
    /\ UNCHANGED <<queue, pool, now, startProxyVars>>

\* the timer of setTimeout fires while the handler waits:
\* if (!res.headersSent) res.status(504).json(...)
Timeout(i) ==
    /\ tasks[i].pc \in {"call", "sleep"}
    /\ tasks[i].timer = "armed"
    /\ tasks' = [tasks EXCEPT ![i] =
           [@ EXCEPT !.timer = "fired",
                     !.res = IF tasks[i].res.headersSent THEN @
                             ELSE ResJson(@, 504, "error", <<"Timeout">>, 504)]]
    /\ UNCHANGED <<queue, pool, now, startProxyVars>>

CreateServerNext ==
    \/ \E i \in Requests : Arrive(i)
    \/ \E i \in Requests : Start(i)
    \/ \E i \in Requests : StreamChunk(i)
    \/ \E i \in Requests : CallSucceeds(i)
    \/ \E i \in Requests : CallFails(i)
    \/ \E i \in Requests : Wake(i)
    \/ \E i \in Requests : Timeout(i)

CreateServerSpec == CreateServerInit /\ [][CreateServerNext]_vars

\* ------------------------------------------------------------------------
\* RequestQueue under callers that acquire a slot and release it later
\* ------------------------------------------------------------------------
QueueCallers == 1..MaxQueueCallers

QueueConfigs ==
    [maxConcurrent : {1, 2}, queueSize : {2}, maxRetries : {2},
     claudeRegions : {<<"us-east5", "us-east1">>}]

QueueInit ==
    /\ \E c \in QueueConfigs :
          /\ config = c
          /\ queue = [maxConcurrent |-> c.maxConcurrent, maxQueueSize |-> c.queueSize,
                      activeCount |-> 0, queue |-> <<>>]
    /\ pool = NoPool
    /\ tasks = [i \in QueueCallers |-> NewTask]
    /\ now = 1
    /\ logFiles = NoLogFiles
    /\ cache = NoCache
    /\ req = NoReq
    /\ pc = "idle"
    /\ modelId = <<>>
    /\ loop = NoLoop
    /\ thrown = NoError
    /\ lastAttempt = NoAttempt
    /\ dispatches = 0
    /\ requestCount = 0
    /\ res = NewRes
    /\ streamState = NoStream
    /\ errorLog = {}
    /\ call = NoCall
    /\ result = NotApplied

\* a caller that holds a slot calls release()
Release(i) ==
    /\ tasks[i].pc = "start"
    /\ Finally(i, tasks[i])
    /\ UNCHANGED <<pool, now, startProxyVars>>

QueueNext ==
    \/ \E i \in QueueCallers : Arrive(i)
    \/ \E i \in QueueCallers : Release(i)

\* every caller that holds a slot eventually calls release()
QueueSpec ==
    /\ QueueInit
    /\ [][QueueNext]_vars
    /\ \A i \in QueueCallers : WF_vars(Release(i))


\* ------------------------------------------------------------------------
\* Properties
\* ------------------------------------------------------------------------
Wire == res.wire

IsChunk(f) == f.kind \notin {"done", "raw"}

\* the request is one of the streaming responses of the chat and completions
\* routes and at least one frame was written
StreamStarted ==
    /\ req.route \in {"chat", "completions"}
    /\ req.stream
    /\ Wire # <<>>

\* C1: the frames of a streaming response end either with one chunk whose
\* finish_reason is non-null, then exactly one [DONE], then the end of the
\* response, or, after a logged stream fault, with the end of the response
\* and no finish_reason chunk and no [DONE]; [DONE] is never written twice,
\* never without the finish_reason chunk before it, and nothing follows it
StreamTerminalFraming ==
    StreamStarted =>
        LET n == Len(Wire)
        IN  /\ \A i \in 1..n :
                  Wire[i].kind = "done" =>
                      /\ i = n
                      /\ i > 1
                      /\ Wire[i - 1].kind = "finish"
                      /\ Wire[i - 1].finish \in {"stop", "tool_calls"}
                      /\ res.ended
            /\ \A i \in 1..n : Wire[i].kind = "finish" => (i = n - 1 /\ Wire[n].kind = "done")
            /\ res.ended =>
                  \/ Wire[n].kind = "done"
                  \/ /\ \A i \in 1..n : Wire[i].kind \notin {"finish", "done"}
                     /\ "stream_error" \in errorLog

\* a chat stream that delivered content and ended with the stop chunk and [DONE]
StreamCompletedWitness ==
    /\ StreamStarted
    /\ res.ended
    /\ Len(Wire) >= 4
    /\ Wire[Len(Wire)].kind = "done"
    /\ streamState.handler = "anthropic"

RoleFrameFirst ==
    (req.route = "chat" /\ req.stream /\ Wire # <<>>) =>
        /\ Wire[1].kind = "role"
        /\ Wire[1].role = "assistant"
        /\ \A i \in 2..Len(Wire) : Wire[i].role = ""

\* C4: all chunks of one streaming response carry the same id, the leftover
\* buffer's chunk and the final chunk included
SameCompletionId ==
    \A i, j \in 1..Len(Wire) :
        (IsChunk(Wire[i]) /\ IsChunk(Wire[j])) => Wire[i].id = Wire[j].id

\* a finished Anthropic chat stream whose last content chunk came from the
\* leftover buffer, written after the clock had advanced
SameCompletionIdWitness ==
    /\ pc = "done"
    /\ streamState.handler = "anthropic"
    /\ streamState.buffer.complete
    /\ streamState.buffer.ev = "text_delta"
    /\ now > streamState.completionId
    /\ Len(Wire) >= 5
    /\ Wire[Len(Wire)].kind = "done"

\* C5: a failover loop attempts the regions of getRegionFallbackOrder in
\* order, each at most once, goes on only after attempts classified
\* retryable, and attempts nothing after a success or a terminal failure
FailoverInPlanOrder ==
    loop.name # "none" =>
        LET a == loop.attempts
        IN  /\ loop.regions = getRegionFallbackOrder(modelId, cache)
            /\ Len(a) <= Len(loop.regions)
            /\ \A i \in 1..Len(a) : a[i].region = loop.regions[i]
            /\ \A i, j \in 1..Len(a) : i # j => a[i].region # a[j].region
            /\ \A i \in 1..(Len(a) - 1) : a[i].class = "retryable"
            /\ loop.ri \in {Len(a), Len(a) + 1}
            /\ loop.ri = Len(a) + 1 => \A i \in 1..Len(a) : a[i].class = "retryable"
            /\ loop.calls <= loop.ri

\* a loop that went through two retryable regions and succeeded in the third
FailoverInPlanOrderWitness ==
    /\ Len(loop.attempts) = 3
    /\ loop.attempts[3].class = "success"
    /\ pc = "done"

\* C6: a terminal upstream status S with body B on the first attempt of a
\* chat request is answered with HTTP status S and error.message B, after
\* exactly one upstream call
TerminalErrorSurfaced ==
    ( /\ req.route = "chat"
      /\ pc = "done"
      /\ dispatches = 1
      /\ Len(loop.attempts) = 1
      /\ lastAttempt.class = "terminal"
      /\ lastAttempt.status # NoStatus ) =>
        /\ loop.calls = 1
        /\ Len(res.jsonCalls) = 1
        /\ res.jsonCalls[1].kind = "error"
        /\ res.jsonCalls[1].status = lastAttempt.status
        /\ res.jsonCalls[1].message = lastAttempt.message

\* C7: when every region of the plan failed with a retryable error, the
\* chat request is answered with the HTTP status and the message of the
\* last region attempted
ExhaustionSurfacesLastError ==
    ( /\ req.route = "chat"
      /\ pc = "done"
      /\ loop.name = "chat"
      /\ Len(loop.attempts) = Len(loop.regions)
      /\ \A i \in 1..Len(loop.attempts) : loop.attempts[i].class = "retryable" ) =>
        /\ Len(res.jsonCalls) = 1
        /\ res.jsonCalls[1].kind = "error"
        /\ res.jsonCalls[1].status = loop.lastError.status
        /\ res.jsonCalls[1].message = loop.lastError.message

\* the classification of an upstream answer as the three loops are said to
\* make it
StatedClass(status, message) ==
    IF ResponseOk(status) THEN "success"
    ELSE IF \/ status \in {429, 500, 503}
            \/ Includes(message, "capacity")
            \/ Includes(message, "overloaded")
            \/ Includes(message, "unavailable")
         THEN "retryable"
         ELSE "terminal"

\* C8: every loop classifies an upstream answer by the same rule: retryable
\* exactly for 429, 500, 503 or a body with capacity, overloaded or
\* unavailable, terminal otherwise
ClassificationUniform ==
    (lastAttempt.class # "none" /\ lastAttempt.status # NoStatus) =>
        lastAttempt.class = StatedClass(lastAttempt.status, lastAttempt.message)

\* C9: a POST that rejects before any response (an error without a status)
\* is classified retryable by the chat failover loop
TransportFailureRetryable ==
    ( /\ lastAttempt.loop = "chat"
      /\ lastAttempt.status = NoStatus
      /\ lastAttempt.message = <<"fetch", "failed">> ) =>
        lastAttempt.class = "retryable"

\* C10: one inbound chat request is re-dispatched to a fallback model at
\* most once
AtMostOneModelFallback == dispatches <= 2

\* C11: handleChatCompletions dispatches the fallback model only after the
\* failover loop went through every planned region with retryable failures;
\* a terminal failure is never followed by a dispatch of the fallback model
FallbackOnlyAfterExhaustion ==
    [][ (pc = "chat_catch" /\ pc' = "chat_entry") =>
            /\ lastAttempt.class = "retryable"
            /\ loop.name = "chat"
            /\ Len(loop.attempts) = Len(loop.regions) ]_vars

\* the frames of the tool-call deltas of a chat stream
IsToolFrame(f) == f.kind \in {"tool_open", "tool_args"}

\* C12: the final chunk of a chat stream translated from an Anthropic stream
\* has finish_reason "tool_calls" when a tool-call delta frame was written
\* before it, and "stop" otherwise
FinishReasonReflectsTools ==
    streamState.handler = "anthropic" =>
        \A i \in 1..Len(Wire) :
            Wire[i].kind = "finish" =>
                Wire[i].finish = IF \E j \in 1..(i - 1) : IsToolFrame(Wire[j])
                                 THEN "tool_calls" ELSE "stop"

\* C13: a terminated Anthropic chat stream either has the role frame, the
\* upstream message_stop, the finish_reason frame and [DONE], all four, or
\* was closed with neither the finish_reason frame nor [DONE]
FinalFramesOnlyAfterMessageStop ==
    (streamState.handler = "anthropic" /\ res.ended) =>
        \/ /\ \E i \in 1..Len(Wire) : Wire[i].kind = "role"
           /\ streamState.receivedMessageStop
           /\ \E i \in 1..Len(Wire) : Wire[i].kind = "finish"
           /\ \E i \in 1..Len(Wire) : Wire[i].kind = "done"
        \/ \A i \in 1..Len(Wire) : Wire[i].kind \notin {"finish", "done"}

\* C14: a request naming an alias and the same request naming the alias's
\* target are prepared alike on every route: same resolved model, region
\* plan, upstream URL and upstream request body
AliasEquivalentToTarget ==
    ( /\ call.fn = "upstreamRequest"
      /\ result.applied
      /\ call.modelInput \in DOMAIN call.config.model_aliases ) =>
        result.request = UpstreamRequest(call.route,
                                         call.config.model_aliases[call.modelInput],
                                         call.config, call.cacheModels)

\* the catalog ids that start with the input, by position in the catalog
PrefixMatches(modelInput) ==
    { i \in 1..Len(MODEL_CATALOG) : StartsWith(MODEL_CATALOG[i].id, modelInput) }

\* the result of the resolution cascade as it is stated
StatedResolution(modelInput, aliases) ==
    IF modelInput \in DOMAIN aliases THEN aliases[modelInput]
    ELSE IF InCatalog(modelInput) THEN modelInput
    ELSE IF /\ modelInput[1] = "claude-"
            /\ \A i \in 1..Len(modelInput) : modelInput[i] # "@"
            /\ PrefixMatches(modelInput) # {}
         THEN MODEL_CATALOG[CHOOSE i \in PrefixMatches(modelInput) :
                               \A j \in PrefixMatches(modelInput) : i <= j].id
         ELSE modelInput

ChosenRegions(mid, cacheModels) ==
    IF mid \in DOMAIN cacheModels /\ cacheModels[mid] # <<>> THEN cacheModels[mid]
    ELSE IF InCatalog(mid) THEN getModelSpec(mid).regions
    ELSE priorityOrder

PositionIn(seq, x) == CHOOSE i \in 1..Len(seq) : seq[i] = x

\* C16: the region plan is non-empty and is the chosen region set with
\* us-east5, us-central1, europe-west1 first, in that order, when present,
\* and the other regions after them in their original relative order
RegionPlanOrdered ==
    (call.fn = "getRegionFallbackOrder" /\ result.applied) =>
        LET R == result.regions
            S == ChosenRegions(call.modelId, loadRegionCache(call.cacheFile))
            IsPriority(r) == \E k \in 1..Len(priorityOrder) : priorityOrder[k] = r
        IN  /\ R # <<>>
            /\ {R[i] : i \in 1..Len(R)} = {S[i] : i \in 1..Len(S)}
            /\ \A i, j \in 1..Len(R) : i # j => R[i] # R[j]
            /\ \A i, j \in 1..Len(R) :
                  i < j =>
                     \/ IsPriority(R[i]) /\ ~IsPriority(R[j])
                     \/ /\ IsPriority(R[i]) /\ IsPriority(R[j])
                        /\ PositionIn(priorityOrder, R[i]) < PositionIn(priorityOrder, R[j])
                     \/ /\ ~IsPriority(R[i]) /\ ~IsPriority(R[j])
                        /\ PositionIn(S, R[i]) < PositionIn(S, R[j])

\* a cached list whose priority regions are moved to the front
RegionPlanOrderedWitness ==
    /\ call.fn = "getRegionFallbackOrder"
    /\ result.applied
    /\ call.modelId = Opus
    /\ call.cacheFile.present
    /\ call.cacheFile.models[Opus] =
          <<"asia-southeast1", "europe-west1", "us-west1", "us-central1">>
    /\ result.regions = <<"us-central1", "europe-west1", "asia-southeast1", "us-west1">>

\* C17: a cache file that is older than its validity period or belongs to
\* another project does not determine the region plan: the plan is then the
\* one built from the static catalog
StaleCacheNotUsed ==
    ( /\ call.fn = "getRegionFallbackOrder"
      /\ result.applied
      /\ ~isCacheValid(call.cacheFile, call.projectId, call.now) ) =>
        result.regions = getRegionFallbackOrder(call.modelId, NoCache)

RECURSIVE JoinContents(_)
\* the contents joined by the separator
JoinContents(contents) ==
    IF contents = <<>> THEN <<>>
    ELSE IF Len(contents) = 1 THEN contents[1]
    ELSE contents[1] \o <<Separator>> \o JoinContents(Tail(contents))

\* C18: the translated messages hold no system message and keep the order of
\* the others, and the upstream system field is the contents of the system
\* messages, in request order, joined by "\n\n", empty contents included
SystemMessagesJoined ==
    (call.fn = "extractSystemMessage" /\ result.applied) =>
        LET sys == SelectSeq(call.messages, LAMBDA m : m.role = "system")
        IN  /\ result.messages = SelectSeq(call.messages, LAMBDA m : m.role # "system")
            /\ result.requestSystem.text =
                  JoinContents([i \in 1..Len(sys) |-> sys[i].content])

RECURSIVE IsSubsequence(_, _)
\* a is b with some elements left out
IsSubsequence(a, b) ==
    IF a = <<>> THEN TRUE
    ELSE IF b = <<>> THEN FALSE
    ELSE IF Head(a) = Head(b) THEN IsSubsequence(Tail(a), Tail(b))
    ELSE IsSubsequence(a, Tail(b))

\* C19: the output of truncateMessages ends with the last min(4, n) input
\* messages and is a subsequence of the input
TruncationKeepsLastFour ==
    (call.fn = "truncateMessages" /\ result.applied) =>
        LET n == Len(call.messages)
            m == IF n < 4 THEN n ELSE 4
            out == result.messages
        IN  /\ Len(out) >= m
            /\ SubSeq(out, Len(out) - m + 1, Len(out)) = SubSeq(call.messages, n - m + 1, n)
            /\ IsSubsequence(out, call.messages)

\* a truncation that dropped the oldest message and kept one before the last four
TruncationKeepsLastFourWitness ==
    /\ call.fn = "truncateMessages"
    /\ result.applied
    /\ result.truncated
    /\ Len(call.messages) = 6
    /\ Len(result.messages) = 5
    /\ call.messages[2].content # call.messages[3].content

RECURSIVE StatedEstimate(_)
\* ceil(chars / 4), summed over the messages
StatedEstimate(messages) ==
    IF messages = <<>> THEN 0
    ELSE LET chars == Len(Head(messages).content)
         IN  (IF chars % 4 = 0 THEN chars \div 4 ELSE chars \div 4 + 1)
             + StatedEstimate(Tail(messages))

\* C20: the kept messages are the longest suffix of the list that includes
\* the last four and whose estimate does not exceed the context window
\* minus the reserve; more than four kept messages fit the window together
\* with the reserve, and nothing is dropped from a list that fits
TruncationLongestFittingSuffix ==
    (call.fn = "truncateMessages" /\ result.applied) =>
        LET ms == call.messages
            n == Len(ms)
            out == result.messages
            first == n - Len(out) + 1
            Fits(k) == StatedEstimate(SubSeq(ms, k, n)) <= call.maxTokens - call.reserveTokens
        IN  /\ Len(out) <= n
            /\ out = SubSeq(ms, first, n)
            /\ Len(out) >= (IF n < 4 THEN n ELSE 4)
            /\ Len(out) > 4 =>
                  /\ Fits(first)
                  /\ StatedEstimate(out) + call.reserveTokens <= call.maxTokens
            /\ \A k \in 1..(first - 1) : ~Fits(k)
            /\ Fits(1) => out = ms
            /\ result.truncated <=> Len(out) < n

\* five messages kept of six: the fifth from the end fits, the sixth does not
TruncationLongestFittingSuffixWitness ==
    /\ call.fn = "truncateMessages"
    /\ result.applied
    /\ Len(call.messages) = 6
    /\ Len(result.messages) = 5
    /\ Len(call.messages[1].content) = 5
    /\ Len(call.messages[2].content) = 1

\* C22: once the client closed the connection of a streaming response, the
\* handler neither takes another record from the upstream stream nor writes
\* another frame, and the close is in the log
ClientCloseAbandonsUpstream ==
    [][ res.closed =>
            /\ streamState'.evCount = streamState.evCount
            /\ res'.wire = res.wire
            /\ "response_closed" \in errorLog ]_vars

\* the upstream events that the claim gives one delta frame each
DeltaEvents == {"text_delta", "tool_use_start", "input_json_delta"}

\* the frame kind of a delta event
DeltaFrameKind(ev) ==
    IF ev = "tool_use_start" THEN "tool_open"
    ELSE IF ev = "input_json_delta" THEN "tool_args"
    ELSE "content"

\* the kinds of the delta frames owed to a sequence of upstream events
RECURSIVE OwedFrameKinds(_)
OwedFrameKinds(events) ==
    IF events = <<>> THEN <<>>
    ELSE (IF Head(events) \in DeltaEvents THEN <<DeltaFrameKind(Head(events))>> ELSE <<>>)
         \o OwedFrameKinds(Tail(events))

\* the kinds of the delta frames among a sequence of frames
RECURSIVE WrittenFrameKinds(_)
WrittenFrameKinds(frames) ==
    IF frames = <<>> THEN <<>>
    ELSE (IF Head(frames).kind \in {"content", "tool_open", "tool_args"}
          THEN <<Head(frames).kind>> ELSE <<>>)
         \o WrittenFrameKinds(Tail(frames))

\* C24: the delta frames of an Anthropic chat stream are, in order, one per
\* upstream text_delta, tool_use content_block_start and input_json_delta
\* event received, none dropped, duplicated or reordered, each after the
\* role frame and before the finish_reason frame
DeltaFramesFollowUpstream ==
    streamState.handler = "anthropic" =>
        /\ WrittenFrameKinds(Wire) = OwedFrameKinds(streamState.events)
        /\ \A j \in 1..Len(Wire) :
              Wire[j].kind \in {"content", "tool_open", "tool_args"} =>
                  /\ \E i \in 1..(j - 1) : Wire[i].kind = "role"
                  /\ \A i \in 1..(j - 1) : Wire[i].kind # "finish"

\* C28: an error answer to a chat request for a google-provider model with
\* more than one planned region, after a retryable failure, is sent only
\* after a second upstream call was made
GoogleRegionFailover ==
    ( /\ req.route = "chat"
      /\ ProviderOf(modelId) = "google"
      /\ Len(getRegionFallbackOrder(modelId, cache)) > 1
      /\ res.jsonCalls # <<>>
      /\ res.jsonCalls[1].kind = "error"
      /\ StatedClass(thrown.status, thrown.message) = "retryable" ) =>
        loop.calls >= 2

\* C29: proxyStats.requestCount counts the inbound POST requests, one each
RequestCountPerInboundPost ==
    requestCount = (IF \/ req = NoReq
                       \/ pc \in {"completions_entry", "messages_entry"}
                       \/ (pc = "chat_entry" /\ dispatches = 0)
                    THEN 0 ELSE 1)

\* C30: the translation of the inbound messages into the upstream body
\* returns a body for every message list and never raises an exception
BodyTranslationNeverThrows ==
    (call.fn = "buildRequestBody" /\ result.applied) => ~result.threw

FiredBeforeHeaders(t) ==
    /\ t.timer = "fired"
    /\ \E k \in 1..Len(t.res.jsonCalls) :
          t.res.jsonCalls[k].status = 504 /\ ~t.res.jsonCalls[k].headersSent

\* C23: when the timer of a request fires, the request is answered 504 if
\* its headers were not sent; if they were sent the stream is closed at the
\* expiry and no frame is written after it
TimeoutAnswers ==
    [][ \A i \in Requests :
          ( tasks'[i].timer = "fired" /\ ~FiredBeforeHeaders(tasks'[i]) ) =>
              /\ tasks'[i].res.ended
              /\ tasks[i].timer = "fired" => tasks'[i].res.wire = tasks[i].res.wire ]_vars

\* a request that passed queue.acquire() and did not call queue.release()
Holding(i) == tasks[i].pc \in {"start", "call", "sleep"}

\* C25: activeCount is the number of requests between acquire() and
\* release(), and never exceeds maxConcurrent
QueueBoundsConcurrency ==
    /\ queue.activeCount = Cardinality({i \in Requests : Holding(i)})
    /\ queue.activeCount <= queue.maxConcurrent

\* every slot is taken, one of them by a request that waited in the queue
\* until another request released
QueueBoundsConcurrencyWitness ==
    /\ queue.activeCount = queue.maxConcurrent
    /\ \E i \in Requests : Holding(i) /\ tasks[i].waited
    /\ \E i \in Requests : tasks[i].pc = "done"

\* C26: a request that arrives when maxConcurrent requests are active and
\* queueSize requests wait is answered 429, makes no upstream call and
\* leaves activeCount and the queue as they were; the queue never holds
\* more than queueSize requests
QueueFullRejects ==
    [][ /\ Len(queue'.queue) <= queue'.maxQueueSize
        /\ \A i \in Requests :
              ( /\ tasks[i].pc = "new"
                /\ tasks'[i].pc # "new"
                /\ queue.activeCount = queue.maxConcurrent
                /\ Len(queue.queue) = queue.maxQueueSize ) =>
                  /\ tasks'[i].pc = "rejected"
                  /\ tasks'[i].res.jsonCalls # <<>>
                  /\ tasks'[i].res.jsonCalls[1].status = 429
                  /\ tasks'[i].calls = 0
                  /\ queue' = queue ]_vars

\* a request was answered 429 while a request waits in a full queue
QueueFullRejectsWitness ==
    /\ queue.maxQueueSize >= 1
    /\ Len(queue.queue) = queue.maxQueueSize
    /\ queue.activeCount = queue.maxConcurrent
    /\ \E i \in Requests :
          /\ tasks[i].pc = "rejected"
          /\ tasks[i].calls = 0
          /\ tasks[i].res.jsonCalls # <<>>
          /\ tasks[i].res.jsonCalls[1].status = 429

\* the configured Claude regions
PoolRegions == {pool.regions[k] : k \in 1..Len(pool.regions)}

StatedFinishReason(stop_reason) ==
    IF stop_reason = "end_turn" THEN "stop"
    ELSE IF stop_reason = "tool_use" THEN "tool_calls"
    ELSE stop_reason

\* C31: for a non-streaming chat completion, every tool_use block of the
\* upstream Anthropic response appears in choices[0].message.tool_calls with
\* its arguments as a JSON string, and finish_reason is "stop" for end_turn,
\* "tool_calls" for tool_use and the upstream stop_reason otherwise.
NonStreamingCompletionFaithful ==
    (call.fn = "chatCompletion" /\ result.applied) =>
        /\ \A i \in 1..Len(call.content) :
               call.content[i].type = "tool_use" =>
                   \E j \in 1..Len(result.completion.tool_calls) :
                       /\ result.completion.tool_calls[j].id = call.content[i].id
                       /\ result.completion.tool_calls[j].arguments
                              = JSONStringify(call.content[i].input)
        /\ result.completion.finish_reason = StatedFinishReason(call.stop_reason)

\* the entries of a models listing that stand for aliases
AliasEntries(data) == { e \in data : e.owned_by = "vertex-proxy" }

\* one entry for every catalog model
CatalogListed(data) ==
    \A i \in 1..Len(MODEL_CATALOG) :
        Cardinality({ e \in data \ AliasEntries(data) : e.id = MODEL_CATALOG[i].id }) = 1

\* C32 as stated: GET /v1/models returns one entry for every catalog model
\* and one entry for every alias in config.model_aliases; each alias entry's
\* id is the alias and its root is the alias target.
ModelsListsEveryAlias ==
    (call.fn = "handleModels" /\ result.applied) =>
        /\ CatalogListed(result.data)
        /\ \A a \in DOMAIN call.config.model_aliases :
               Cardinality({ e \in AliasEntries(result.data) : e.id = a }) = 1
        /\ \A e \in AliasEntries(result.data) :
               /\ e.id \in DOMAIN call.config.model_aliases
               /\ e.root = call.config.model_aliases[e.id]

\* C32, amended: GET /v1/models returns one entry for every catalog model
\* and one entry for every alias in config.model_aliases whose target is a
\* catalog model, and no entry for any other alias; each alias entry's id is
\* the alias and its root is the alias target.
ModelsListsCatalogAliases ==
    (call.fn = "handleModels" /\ result.applied) =>
        /\ CatalogListed(result.data)
        /\ \A a \in DOMAIN call.config.model_aliases :
               Cardinality({ e \in AliasEntries(result.data) : e.id = a })
                   = IF InCatalog(call.config.model_aliases[a]) THEN 1 ELSE 0
        /\ \A e \in AliasEntries(result.data) :
               /\ e.id \in DOMAIN call.config.model_aliases
               /\ e.root = call.config.model_aliases[e.id]

\* a listing of a config that holds aliases of catalog models and aliases
\* of other targets
ModelsListsCatalogAliasesWitness ==
    /\ call.fn = "handleModels"
    /\ result.applied
    /\ \E a \in DOMAIN call.config.model_aliases :
           /\ InCatalog(call.config.model_aliases[a])
           /\ \E e \in result.data : e.id = a /\ e.root = call.config.model_aliases[a]
    /\ \E a \in DOMAIN call.config.model_aliases :
           /\ ~InCatalog(call.config.model_aliases[a])
           /\ ~\E e \in result.data : e.id = a

\* C33: every inbound POST request has its response finished: whatever the
\* upstream outcome on the chat, completions and messages routes, a handler
\* that has returned or thrown leaves a JSON response, a completed stream or
\* a closed stream, never an unanswered request.
EveryRequestAnswered ==
    (req # NoReq /\ pc \in {"done", "rejected"}) => res.ended

\* C34: in the failover loops of handleAnthropicChatWithFallback,
\* handleAnthropicCompletions and handleAnthropicMessages, once any part of
\* the response body has been written to the client no further upstream
\* attempt is started for that request.
NoAttemptAfterBodyWritten ==
    [][ ( /\ loop.name \in {"chat", "completions", "messages"}
          /\ loop'.name = loop.name
          /\ Len(res.wire) > 0 ) => loop'.calls = loop.calls ]_vars

\* C35: for every streaming chat request and every provider, no SSE frame
\* is written to the client before the upstream call has been accepted; in
\* particular none is written while no upstream call has been made yet.
NoFrameBeforeUpstreamAccepts ==
    (req.route = "chat" /\ req.stream /\ Len(res.wire) > 0) => loop.calls > 0

\* the frames a handler writes for one data: record that arrived as a line
LineFrames(handler, ev, cid, t) ==
    IF handler = "anthropic" THEN ChatLineFrames(ev, cid, t)
    ELSE CompletionsLineFrames(ev, cid, t)

\* C36: the frames of the streaming translators depend only on the upstream
\* bytes, not on how they are split into reads: a final record that is not
\* terminated by a newline when the upstream ends is translated like a
\* record that arrived as a line, in the chat and in the completions handler.
FinalRecordTranslated ==
    [][ ( /\ pc \in {"ac_read", "co_read"}
          /\ pc' = "done"
          /\ streamState.buffer.complete
          /\ res'.wire # res.wire ) =>
            WrittenFrameKinds(SubSeq(res'.wire, Len(res.wire) + 1, Len(res'.wire)))
                = WrittenFrameKinds(LineFrames(streamState.handler, streamState.buffer.ev,
                                               streamState.completionId, now)) ]_vars

\* no request of createServer is in progress
Quiescent == \A i \in Requests : tasks[i].pc \in {"new", "done", "rejected"}

\* C37: a chat request of createServer that acquired a slot releases it
\* exactly once on every way out of the handler (JSON answer, finished
\* stream, thrown error, request already answered 504): leaving the handler
\* gives up one slot or hands it to one waiter, a finished request changes
\* the queue no more, and with no request in progress activeCount is 0 and
\* nobody waits.
SlotReleasedOnce ==
    [][ /\ \A i \in Requests :
              (Holding(i) /\ tasks'[i].pc \notin {"start", "call", "sleep"}) =>
                  /\ tasks'[i].pc = "done"
                  /\ queue'.activeCount + Len(queue'.queue)
                         = queue.activeCount + Len(queue.queue) - 1
        /\ \A i \in Requests :
              tasks[i].pc \in {"done", "rejected"} => tasks'[i] = tasks[i]
        /\ (\A i \in Requests : tasks'[i].pc \in {"new", "done", "rejected"}) =>
              (queue'.activeCount = 0 /\ queue'.queue = <<>>) ]_vars

\* all requests came and went: two of them held a slot and finished, one
\* was turned away, and the queue is at rest
SlotReleasedOnceWitness ==
    /\ Quiescent
    /\ \A i \in Requests : tasks[i].pc # "new"
    /\ Cardinality({i \in Requests : tasks[i].pc = "done"}) >= 2
    /\ \E i \in Requests : tasks[i].pc = "rejected"
    /\ queue.activeCount = 0
    /\ queue.queue = <<>>

\* C38: RequestQueue grants slots to waiting callers in arrival order, a
\* later arrival never overtakes a waiter, and every waiting caller is
\* eventually granted a slot provided every caller that holds one
\* eventually calls release(). Callers are numbered in arrival order.
QueueFifo ==
    /\ [][ \A i \in QueueCallers :
              /\ (tasks[i].pc = "waiting" /\ tasks'[i].pc = "start") =>
                     /\ queue.queue # <<>>
                     /\ Head(queue.queue) = i
                     /\ \A j \in 1..(i - 1) : tasks[j].pc # "waiting"
                     /\ queue'.activeCount = queue.activeCount
              /\ (tasks[i].pc = "new" /\ tasks'[i].pc = "start") =>
                     \A j \in QueueCallers : tasks[j].pc # "waiting" ]_vars
    /\ \A i \in QueueCallers : (tasks[i].pc = "waiting") ~> (tasks[i].pc = "start")

\* the oldest of two waiters was granted the slot a release freed, and the
\* younger one still waits
QueueFifoWitness ==
    \E i, j \in QueueCallers :
        /\ i < j
        /\ tasks[i].waited
        /\ tasks[i].pc = "start"
        /\ tasks[j].pc = "waiting"
        /\ \E k \in QueueCallers : tasks[k].pc = "done"

\* C39: in createServer at most one response is started for a request
\* under every interleaving of the timeout callback and the handler: after
\* the 504 the handler writes no second status, JSON body or SSE frame, and
\* after the handler has responded the timeout callback writes nothing.
OneResponsePerRequest ==
    \A i \in Requests :
        /\ tasks[i].pc = "done" => tasks[i].responses <= 1
        /\ tasks[i].pc # "done" => ResponsesStarted(tasks[i].res) <= 1

\* the timer of one request fired first and answered 504 while its handler
\* is still in the retry loop after a failed call; the timer of another
\* fired after its handler had started the stream, and wrote nothing; a
\* third request has finished
OneResponsePerRequestWitness ==
    \E i, j, k \in Requests :
        /\ tasks[i].timer = "fired"
        /\ tasks[i].pc = "call"
        /\ tasks[i].calls >= 2
        /\ tasks[i].res.jsonCalls # <<>>
        /\ tasks[i].res.jsonCalls[1].status = 504
        /\ tasks[j].timer = "fired"
        /\ tasks[j].res.wire # <<>>
        /\ tasks[j].res.jsonCalls = <<>>
        /\ tasks[k].pc = "done"
        /\ tasks[k].responses = 1

\* C40: in createServer one chat request for a Claude model makes at most
\* maxRetries upstream attempts whatever the upstream answers; a non-429
\* error below 500 ends the loop at once, so no request goes on after one;
\* and after the last attempt the handler terminates with a response: when
\* the handler of the request returns, its res is ended.
RetryLoopTerminatesAnswered ==
    [][ \A i \in Requests :
           /\ tasks'[i].type = "claude" => tasks'[i].calls <= config.maxRetries
           /\ tasks'[i].pc \in {"call", "sleep"} =>
                  tasks'[i].lastStatus \in {NoStatus, 429, 500}
           /\ ( /\ tasks[i].type = "claude"
                /\ tasks[i].pc \in {"call", "sleep"}
                /\ tasks'[i].pc = "done" ) => tasks'[i].ended ]_vars

====
